---- MODULE Spec2Model ----
(***************************************************************************)
(* Container lifecycle + database logging pipeline of the Playwright API   *)
(* automation suite: DatabaseConfigManager, TestContainerManager,          *)
(* DatabaseManager, ApiClientBase and the global setup/teardown hooks.     *)
(***************************************************************************)
EXTENDS Integers, Sequences, FiniteSets, TLC

(***************************************************************************)
(* Bounds of the model.                                                    *)
(***************************************************************************)
\* Pools the DatabaseManager may construct in one behaviour.
MaxPools == 2
\* Rows api_logs may hold in one behaviour.
MaxRows == 1

(***************************************************************************)
(* JavaScript values.  Every value is a record with a type tag t, so that  *)
(* values of different types can be compared.                              *)
(***************************************************************************)
Undefined == [t |-> "undefined"]
Null == [t |-> "null"]
Num(n) == [t |-> "number", n |-> n]
Str(s) == [t |-> "string", s |-> s]
\* A plain object, identified by name; circular objects cannot be serialized.
Obj(name, circular) == [t |-> "object", name |-> name, circular |-> circular]
\* The text JSON.stringify produces for a value.
Json(v) == [t |-> "json", of |-> v]

\* JavaScript truthiness, as used by `a || b`.
Falsy(v) ==
    \/ v.t \in {"undefined", "null"}
    \/ v.t = "number" /\ v.n = 0
    \/ v.t = "string" /\ v.s = ""

\* `v || null`
OrNull(v) == IF Falsy(v) THEN Null ELSE v

\* `v || d`
OrDefault(v, d) == IF Falsy(v) THEN d ELSE v

\* Number.prototype.toString() and parseInt(s, 10) on decimal integers.
toString(n) == Str(<<"dec", n>>)
parseInt(s) == s.s[2]

(***************************************************************************)
(* State.                                                                  *)
(***************************************************************************)
VARIABLES
    env,            \* process.env: the variables the program reads and writes
    pool,           \* DatabaseManager.pool: 0 is null, otherwise a pool id
    isInitialized,  \* DatabaseManager.isInitialized
    nextPool,       \* id the next constructed Pool gets
    poolPort,       \* port each constructed pool targets
    poolEnded,      \* pools on which end() has been called
    initPc,         \* position of each initialize() call
    initRef,        \* pool the suspended initialize() call is waiting on
    closePc,        \* position of the close() call
    closeRef,       \* pool the suspended close() call is ending
    logPc,          \* position of the logApiCall() call
    logRef,         \* pool the suspended insert runs on
    logData,        \* entry the suspended logApiCall() call was given
    logValues,      \* row the suspended insert carries
    apiLogs,        \* rows of the api_logs table
    logApiCalls,    \* ApiClientBase.logApiCalls
    reqPc,          \* position of the makeRequest() call
    req,            \* the client call being served: method, endpoint, options
    retryCount,     \* makeRequest's retryCount of the current frame
    reqFetched,     \* response or error of the current frame's fetch
    reqElapsed,     \* executionTime of the current frame
    reqHistory,     \* results of the HTTP attempts of the call so far
    reqWaitedMs,    \* time the call spent in retry delays
    reqRowsBefore,  \* number of api_logs rows when the call was made
    docker,         \* the containers of the container runtime, newest first
    nextContainer,  \* id the next created container gets
    container,      \* TestContainerManager.container: 0 is null, else an id
    startPc,        \* position of the start() call
    stdout,         \* findExistingContainer's stdout: the listing in use
    existingContainer, \* start()'s existingContainer
    startLog,       \* what the start() call did so far: commands, results
    starts,         \* number of start() calls made
    created,        \* ids of the containers this manager's start() created
    reused,         \* ids of the containers this manager's start() reused
    stopPc,         \* position of the stop() call
    hook,           \* position of the run's global setup and global teardown
    phase,          \* last completed initialize()/close() call
    ret             \* what the call that returned in the last step returned

envVars == <<env>>
dbVars == <<pool, isInitialized, nextPool, poolPort, poolEnded>>
initVars == <<initPc, initRef>>
closeVars == <<closePc, closeRef>>
logVars == <<logPc, logRef, logData, logValues, apiLogs>>
reqVars == <<logApiCalls, reqPc, req, retryCount, reqFetched, reqElapsed,
             reqHistory, reqWaitedMs, reqRowsBefore>>
startVars == <<docker, nextContainer, container, startPc, stdout, existingContainer,
               startLog, starts, created, reused>>
runVars == <<stopPc, hook>>
vars == <<env, pool, isInitialized, nextPool, poolPort, poolEnded,
          initPc, initRef, closePc, closeRef,
          logPc, logRef, logData, logValues, apiLogs,
          logApiCalls, reqPc, req, retryCount, reqFetched, reqElapsed,
          reqHistory, reqWaitedMs, reqRowsBefore,
          docker, nextContainer, container, startPc, stdout, existingContainer,
          startLog, starts, created, reused, stopPc, hook,
          phase, ret>>

\* No call returned in the last step.
NoRet == [op |-> "none"]

(***************************************************************************)
(* DatabaseConfigManager.                                                  *)
(***************************************************************************)
DefaultPort == 5432

\* loadConfig(): the connection descriptor read from the environment.
loadConfig(e) ==
    [host |-> OrDefault(e.DB_HOST, Str("localhost")),
     port |-> parseInt(OrDefault(e.DB_PORT, toString(DefaultPort))),
     database |-> OrDefault(e.DB_NAME, Str("api_test_db")),
     user |-> OrDefault(e.DB_USER, Str("testuser")),
     password |-> OrDefault(e.DB_PASSWORD, Str("testpass")),
     schema |-> OrDefault(e.DB_SCHEMA, Str("api_logs"))]

getConfigReadOnce(e) == loadConfig([DB_HOST |-> Undefined, DB_PORT |-> Undefined,
                                    DB_NAME |-> Undefined, DB_USER |-> Undefined,
                                    DB_PASSWORD |-> Undefined, DB_SCHEMA |-> Undefined])
\* getConfig(): recomputed from the environment on every read.
getConfig(e) == loadConfig(e)

\* The environment of a freshly started process (nothing published yet).
EnvUnset ==
    [DB_HOST |-> Undefined, DB_PORT |-> Undefined, DB_NAME |-> Undefined,
     DB_USER |-> Undefined, DB_PASSWORD |-> Undefined, DB_SCHEMA |-> Undefined,
     DB_INITIALIZED |-> Undefined, LOG_API_CALLS |-> Undefined,
     KEEP_CONTAINER_RUNNING |-> Undefined]

PublishEnvKeepsPort(e, host, port, database, user, password) ==
    [e EXCEPT !.DB_HOST = host, !.DB_NAME = database,
              !.DB_USER = user, !.DB_PASSWORD = password,
              !.DB_INITIALIZED = Str("true")]
\* The assignments start() makes to process.env once a container is usable.
PublishEnv(e, host, port, database, user, password) ==
    [e EXCEPT !.DB_HOST = host, !.DB_PORT = toString(port), !.DB_NAME = database,
              !.DB_USER = user, !.DB_PASSWORD = password,
              !.DB_INITIALIZED = Str("true")]

\* process.env.DB_INITIALIZED === 'true'
DbInitializedSignal(e) == e.DB_INITIALIZED = Str("true")

(***************************************************************************)
(* DatabaseManager.                                                        *)
(***************************************************************************)
NoPool == 0
PoolIds == 1..MaxPools

\* The callers whose initialize() calls may overlap.
InitCallers == {"setup", "other"}

\* The statements createSchemaAndTables() runs, in order: the schema, the
\* api_logs table and its five indexes.
SchemaStatements ==
    <<"schema", "api_logs", "idx_method", "idx_endpoint", "idx_created_at",
      "idx_test_name", "idx_response_status">>

\* new Pool({...config}): the manager's fields once the pool is stored.
\* An earlier pool handle is overwritten without being ended.
NewPoolStored ==
    /\ nextPool <= MaxPools
    /\ pool' = nextPool
    /\ nextPool' = nextPool + 1
    /\ poolPort' = [poolPort EXCEPT ![nextPool] = getConfig(env).port]
    /\ UNCHANGED poolEnded

ReinitWantedWithoutSignal(init, e) == ~init

\* The guard of isReady() for re-creating the pool.
ReinitWanted(init, e) == ~init /\ DbInitializedSignal(e)

\* reinitializePool(): builds a pool and marks the manager initialized; a
\* failure of the constructor is caught.  No schema statement runs.
reinitializePool(ctorOk) ==
    IF isInitialized
    THEN UNCHANGED dbVars
    ELSE IF ctorOk
         THEN NewPoolStored /\ isInitialized' = TRUE
         ELSE UNCHANGED dbVars

\* isReady(): its side effect on the manager ...
isReady(ctorOk) ==
    IF ReinitWanted(isInitialized, env)
    THEN reinitializePool(ctorOk)
    ELSE UNCHANGED dbVars

\* ... and the value it returns, read after the side effect.
isReadyResult == isInitialized' /\ pool' # NoPool

\* The guard shared by getClient() and query().
NotInitialized(p, init) == p = NoPool \/ ~init

\* A query or connect on a pool can succeed only while end() has not been
\* called on it.
PoolUsable(p) == p \in PoolIds /\ p \notin poolEnded

\* A standalone isReady() call.
IsReadyCall ==
    /\ \E ctorOk \in BOOLEAN :
          /\ isReady(ctorOk)
          /\ ret' = [op |-> "isReady",
                     result |-> isReadyResult,
                     phase |-> phase,
                     signal |-> DbInitializedSignal(env),
                     reinitFailed |-> ReinitWanted(isInitialized, env) /\ ~ctorOk]
    /\ UNCHANGED <<envVars, initVars, closeVars, logVars, reqVars, startVars, runVars, phase>>

AlreadyInitializedIgnored(init) == FALSE
\* The guard of initialize(): if (this.isInitialized) return.
AlreadyInitialized(init) == init

\* What an initialize() call returns to its caller.
InitializeRet(i, outcome, at) ==
    [op |-> "initialize", caller |-> i, outcome |-> outcome, at |-> at, phase |-> phase]

\* initialize(), up to its first suspension: the already-initialized guard,
\* the Pool constructor and the start of the connectivity check.
InitializeCall(i) ==
    /\ initPc[i] = "idle"
    /\ IF AlreadyInitialized(isInitialized)
       THEN /\ ret' = InitializeRet(i, "ok", "guard")
            /\ phase' = "initOk"
            /\ UNCHANGED <<dbVars, initPc, initRef>>
       ELSE \E ctorOk \in BOOLEAN :
               IF ctorOk
               THEN /\ NewPoolStored
                    /\ UNCHANGED isInitialized
                    /\ initPc' = [initPc EXCEPT ![i] = "select1"]
                    /\ initRef' = [initRef EXCEPT ![i] = nextPool]
                    /\ ret' = NoRet
                    /\ UNCHANGED phase
               ELSE /\ ret' = InitializeRet(i, "error", "pool")
                    /\ phase' = "initFailed"
                    /\ UNCHANGED <<dbVars, initPc, initRef>>
    /\ UNCHANGED <<envVars, closeVars, logVars, reqVars, startVars, runVars>>

\* The flag initialize() holds once the connectivity check has passed, while
\* createSchemaAndTables() runs.
FlagDuringSchemaSetup == TRUE

FlagAfterFailedCheckCleared(init) == FALSE
\* The flag after a failed connectivity check: the catch rethrows and leaves
\* it as it is.
FlagAfterFailedCheck(init) == init

\* initialize() resumes from `SELECT 1`: on failure the error is rethrown; on
\* success the flag is set and createSchemaAndTables() asks getClient() for a
\* client of the current pool.
InitializeSelectDone(i) ==
    /\ initPc[i] = "select1"
    /\ \E ok \in BOOLEAN :
          IF ok /\ PoolUsable(initRef[i])
          THEN /\ isInitialized' = FlagDuringSchemaSetup
               /\ UNCHANGED <<pool, nextPool, poolPort, poolEnded>>
               /\ IF NotInitialized(pool, isInitialized')
                  THEN /\ initPc' = [initPc EXCEPT ![i] = "idle"]
                       /\ initRef' = [initRef EXCEPT ![i] = NoPool]
                       /\ ret' = InitializeRet(i, "error", "getClient")
                       /\ phase' = "initFailed"
                  ELSE /\ initPc' = [initPc EXCEPT ![i] = "connect"]
                       /\ initRef' = [initRef EXCEPT ![i] = pool]
                       /\ ret' = NoRet
                       /\ UNCHANGED phase
          ELSE /\ initPc' = [initPc EXCEPT ![i] = "idle"]
               /\ initRef' = [initRef EXCEPT ![i] = NoPool]
               /\ ret' = InitializeRet(i, "error", "select1")
               /\ phase' = "initFailed"
               /\ isInitialized' = FlagAfterFailedCheck(isInitialized)
               /\ UNCHANGED <<pool, nextPool, poolPort, poolEnded>>
    /\ UNCHANGED <<envVars, closeVars, logVars, reqVars, startVars, runVars>>

\* createSchemaAndTables() resumes from pool.connect().
InitializeConnectDone(i) ==
    /\ initPc[i] = "connect"
    /\ \E ok \in BOOLEAN :
          IF ok /\ PoolUsable(initRef[i])
          THEN /\ initPc' = [initPc EXCEPT ![i] = "stmt1"]
               /\ ret' = NoRet
               /\ UNCHANGED <<initRef, phase>>
          ELSE /\ initPc' = [initPc EXCEPT ![i] = "idle"]
               /\ initRef' = [initRef EXCEPT ![i] = NoPool]
               /\ ret' = InitializeRet(i, "error", "connect")
               /\ phase' = "initFailed"
    /\ UNCHANGED <<envVars, dbVars, closeVars, logVars, reqVars, startVars, runVars>>

StmtPc(k) ==
    CASE k = 1 -> "stmt1" [] k = 2 -> "stmt2" [] k = 3 -> "stmt3" [] k = 4 -> "stmt4"
      [] k = 5 -> "stmt5" [] k = 6 -> "stmt6" [] k = 7 -> "stmt7"

\* createSchemaAndTables() resumes from its k-th statement; the client is
\* released in either case, a failure is rethrown by initialize().
InitializeSchemaStmt(i) ==
    /\ \E k \in 1..Len(SchemaStatements) :
          /\ initPc[i] = StmtPc(k)
          /\ \E ok \in BOOLEAN :
                IF ok
                THEN IF k < Len(SchemaStatements)
                     THEN /\ initPc' = [initPc EXCEPT ![i] = StmtPc(k + 1)]
                          /\ ret' = NoRet
                          /\ UNCHANGED <<initRef, phase>>
                     ELSE /\ initPc' = [initPc EXCEPT ![i] = "idle"]
                          /\ initRef' = [initRef EXCEPT ![i] = NoPool]
                          /\ ret' = InitializeRet(i, "ok", "done")
                          /\ phase' = "initOk"
                ELSE /\ initPc' = [initPc EXCEPT ![i] = "idle"]
                     /\ initRef' = [initRef EXCEPT ![i] = NoPool]
                     /\ ret' = InitializeRet(i, "error", SchemaStatements[k])
                     /\ phase' = "initFailed"
    /\ UNCHANGED <<envVars, dbVars, closeVars, logVars, reqVars, startVars, runVars>>

\* close(), up to the suspension in pool.end(): nothing happens without a pool;
\* end() throws when it was already called on the pool.
CloseCall ==
    /\ closePc = "idle"
    /\ IF pool = NoPool
       THEN /\ ret' = [op |-> "close", outcome |-> "noop"]
            /\ phase' = "closed"
            /\ UNCHANGED <<dbVars, closePc, closeRef>>
       ELSE IF pool \in poolEnded
            THEN /\ ret' = [op |-> "close", outcome |-> "error_ended_twice"]
                 /\ phase' = "closeFailed"
                 /\ UNCHANGED <<dbVars, closePc, closeRef>>
            ELSE /\ poolEnded' = poolEnded \cup {pool}
                 /\ closePc' = "ending"
                 /\ closeRef' = pool
                 /\ ret' = NoRet
                 /\ UNCHANGED <<pool, isInitialized, nextPool, poolPort, phase>>
    /\ UNCHANGED <<envVars, initVars, logVars, reqVars, startVars, runVars>>

HandleAfterEndKept(p) == p
\* The pool handle once pool.end() has resolved: this.pool = null.
HandleAfterEnd(p) == NoPool

\* close() resumes from pool.end(): the handle and the flag are cleared; a
\* failure of end() is rethrown before they are.
CloseEndDone ==
    /\ closePc = "ending"
    /\ \E ok \in BOOLEAN :
          IF ok
          THEN /\ pool' = HandleAfterEnd(pool)
               /\ isInitialized' = FALSE
               /\ ret' = [op |-> "close", outcome |-> "ok"]
               /\ phase' = "closed"
               /\ UNCHANGED <<nextPool, poolPort, poolEnded>>
          ELSE /\ ret' = [op |-> "close", outcome |-> "error_end"]
               /\ phase' = "closeFailed"
               /\ UNCHANGED dbVars
    /\ closePc' = "idle"
    /\ closeRef' = NoPool
    /\ UNCHANGED <<envVars, initVars, logVars, reqVars, startVars, runVars>>

\* query(text, params) issued by a caller other than logApiCall(): fails with
\* the not-initialized error, or runs on the pool.
QueryCall ==
    /\ ret' = [op |-> "query",
               result |-> IF NotInitialized(pool, isInitialized)
                          THEN "error_not_initialized"
                          ELSE IF PoolUsable(pool) THEN "ran" ELSE "error_pool",
               phase |-> phase]
    /\ UNCHANGED <<envVars, dbVars, initVars, closeVars, logVars, reqVars, startVars, runVars, phase>>

(***************************************************************************)
(* DatabaseManager.logApiCall.                                             *)
(***************************************************************************)
\* What is stored when JSON.stringify throws.
StringifyPlaceholder == Json(Obj("error: Failed to stringify object", FALSE))

\* JSON.stringify throws on a circular object.
StringifyThrows(obj) == obj.t = "object" /\ obj.circular

\* stringifyJson(obj)
stringifyJson(obj) ==
    IF obj.t \in {"null", "undefined"}
    THEN Null
    ELSE IF StringifyThrows(obj) THEN StringifyPlaceholder ELSE Json(obj)

\* The parameter list of the INSERT, as a row of api_logs.
InsertValues(data) ==
    [test_name |-> OrNull(data.testName),
     endpoint |-> data.endpoint,
     method |-> data.method,
     request_headers |-> stringifyJson(data.requestHeaders),
     request_body |-> stringifyJson(data.requestBody),
     response_status |-> OrNull(data.responseStatus),
     response_headers |-> stringifyJson(data.responseHeaders),
     response_body |-> stringifyJson(data.responseBody),
     execution_time_ms |-> OrNull(data.executionTimeMs)]

\* What a logApiCall() call returns to its caller, with what it was given and
\* the number of rows it found.
LogApiCallRet(outcome, data, rowsBefore) ==
    [op |-> "logApiCall", outcome |-> outcome, data |-> data, rowsBefore |-> rowsBefore]

logApiCallCatchRethrows == "threw"

\* What the catch block of logApiCall() does with a failed insert: it reports
\* it (when DEBUG is set) and returns.
logApiCallCatch == "returned_insert_failed"

\* logApiCall(data), up to the suspension in the INSERT: returns at once when
\* isReady() is false.
logApiCallBegin(data, ctorOk) ==
    /\ logPc = "idle"
    /\ isReady(ctorOk)
    /\ IF isReadyResult
       THEN /\ logPc' = "insert"
            /\ logRef' = pool'
            /\ logData' = data
            /\ logValues' = InsertValues(data)
       ELSE UNCHANGED <<logPc, logRef, logData, logValues>>
    /\ UNCHANGED apiLogs

\* How logApiCall() ends when the INSERT settles.
logApiCallOutcome(ok) ==
    IF ok /\ PoolUsable(logRef) THEN "returned_inserted" ELSE logApiCallCatch

\* logApiCall() resumes from the INSERT: the row is stored, or the failure is
\* caught.
logApiCallEnd(ok) ==
    /\ logPc = "insert"
    /\ IF ok /\ PoolUsable(logRef)
       THEN apiLogs' = Append(apiLogs, logValues)
       ELSE UNCHANGED apiLogs
    /\ logPc' = "idle"
    /\ logRef' = NoPool
    /\ logData' = Null
    /\ logValues' = Null

\* Entries handed to logApiCall() directly.
HeadersObj == Obj("headers", FALSE)
BodyObj == Obj("body", FALSE)
CircularObj == Obj("circular", TRUE)

LogEntries ==
    { [testName |-> Str("t1"), endpoint |-> <<"/users">>, method |-> "GET",
       requestHeaders |-> HeadersObj, requestBody |-> Undefined,
       responseStatus |-> Num(200), responseHeaders |-> HeadersObj,
       responseBody |-> BodyObj, executionTimeMs |-> Num(15)],
      [testName |-> Str("t1"), endpoint |-> <<"/users/add">>, method |-> "POST",
       requestHeaders |-> CircularObj, requestBody |-> CircularObj,
       responseStatus |-> Num(200), responseHeaders |-> HeadersObj,
       responseBody |-> CircularObj, executionTimeMs |-> Num(15)],
      [testName |-> Str(""), endpoint |-> <<"/users">>, method |-> "GET",
       requestHeaders |-> HeadersObj, requestBody |-> BodyObj,
       responseStatus |-> Num(0), responseHeaders |-> HeadersObj,
       responseBody |-> BodyObj, executionTimeMs |-> Num(0)],
      [testName |-> Undefined, endpoint |-> <<"/auth/login">>, method |-> "POST",
       requestHeaders |-> Undefined, requestBody |-> BodyObj,
       responseStatus |-> Undefined, responseHeaders |-> Null,
       responseBody |-> Null, executionTimeMs |-> Num(15)] }

\* A direct logApiCall(data) call.
LogApiCallCall ==
    /\ Len(apiLogs) < MaxRows
    /\ \E data \in LogEntries, ctorOk \in BOOLEAN :
          /\ logApiCallBegin(data, ctorOk)
          /\ ret' = IF isReadyResult
                    THEN NoRet
                    ELSE LogApiCallRet("returned_not_ready", data, Len(apiLogs))
    /\ UNCHANGED <<envVars, initVars, closeVars, reqVars, startVars, runVars, phase>>

\* The INSERT of a direct logApiCall(data) call settles.
LogApiCallInsertDone ==
    /\ reqPc = "idle"
    /\ \E ok \in BOOLEAN :
          /\ logApiCallEnd(ok)
          /\ ret' = LogApiCallRet(logApiCallOutcome(ok), logData, Len(apiLogs))
    /\ UNCHANGED <<envVars, dbVars, initVars, closeVars, reqVars, startVars, runVars, phase>>

(***************************************************************************)
(* The DatabaseManager of one process, its operations called one after     *)
(* the other (Spec) or overlapping at their suspension points (SpecConc).  *)
(***************************************************************************)
\* The port a container manager publishes in these specifications.
PublishedPort == 55001

\* start() of the container manager completes in this process and publishes
\* the coordinates of the container it reused or created.
StartPublishes ==
    /\ ~DbInitializedSignal(env)
    /\ env' = PublishEnv(env, Str("localhost"), PublishedPort, getConfig(env).database,
                         getConfig(env).user, getConfig(env).password)
    /\ ret' = NoRet
    /\ UNCHANGED <<dbVars, initVars, closeVars, logVars, reqVars, startVars, runVars, phase>>

DbIdle ==
    /\ \A i \in InitCallers : initPc[i] = "idle"
    /\ closePc = "idle"
    /\ logPc = "idle"

\* No makeRequest() call is being served.
ReqIdle ==
    /\ reqPc = "idle"
    /\ req = Null
    /\ retryCount = 0
    /\ reqFetched = Null
    /\ reqElapsed = Null
    /\ reqHistory = <<>>
    /\ reqWaitedMs = 0
    /\ reqRowsBefore = 0

\* The container manager of a process that has not called start(), on a host
\* with no container.
NoContainer == 0
NoStartLog == [cmds |-> <<>>, env |-> EnvUnset, docker |-> <<>>, container |-> NoContainer]
StartIdle ==
    /\ nextContainer = 1
    /\ container = NoContainer
    /\ startPc = "idle"
    /\ stdout = <<>>
    /\ existingContainer = [exists |-> FALSE]
    /\ startLog = NoStartLog
    /\ starts = 0
    /\ created = {}
    /\ reused = {}
    /\ stopPc = "idle"
    /\ hook = "none"

\* No DatabaseManager call is suspended.
DbCallsIdle ==
    /\ initPc = [i \in InitCallers |-> "idle"]
    /\ initRef = [i \in InitCallers |-> NoPool]
    /\ closePc = "idle"
    /\ closeRef = NoPool
    /\ logPc = "idle"
    /\ logRef = NoPool
    /\ logData = Null
    /\ logValues = Null

Init ==
    /\ env = EnvUnset
    /\ pool = NoPool
    /\ isInitialized = FALSE
    /\ nextPool = 1
    /\ poolPort = [p \in PoolIds |-> 0]
    /\ poolEnded = {}
    /\ logApiCalls = FALSE
    /\ ReqIdle
    /\ docker = <<>>
    /\ StartIdle
    /\ DbCallsIdle
    /\ apiLogs = <<>>
    /\ phase = "fresh"
    /\ ret = NoRet

Next ==
    \/ DbIdle /\ StartPublishes
    \/ DbIdle /\ InitializeCall("setup")
    \/ InitializeSelectDone("setup")
    \/ InitializeConnectDone("setup")
    \/ InitializeSchemaStmt("setup")
    \/ DbIdle /\ IsReadyCall
    \/ DbIdle /\ QueryCall
    \/ DbIdle /\ CloseCall
    \/ CloseEndDone
    \/ DbIdle /\ LogApiCallCall
    \/ LogApiCallInsertDone

Spec == Init /\ [][Next]_vars

NextConc ==
    \/ StartPublishes
    \/ \E i \in InitCallers : InitializeCall(i)
    \/ \E i \in InitCallers : InitializeSelectDone(i)
    \/ \E i \in InitCallers : InitializeConnectDone(i)
    \/ \E i \in InitCallers : InitializeSchemaStmt(i)
    \/ IsReadyCall
    \/ QueryCall
    \/ CloseCall
    \/ CloseEndDone
    \/ LogApiCallCall
    \/ LogApiCallInsertDone

SpecConc == Init /\ [][NextConc]_vars

(***************************************************************************)
(* Claims about the DatabaseManager, its operations called one after the   *)
(* other (Spec).                                                           *)
(***************************************************************************)
Ready == isInitialized /\ pool # NoPool

\* C1, as stated: isReady() returns false before initialize() has been
\* called, true after a successful initialize(), and false again after
\* close(), whatever the environment holds.
C1_IsReadyFollowsLifecycle ==
    ret.op = "isReady" =>
        /\ ret.phase = "fresh" => ~ret.result
        /\ ret.phase = "initOk" => ret.result
        /\ ret.phase = "closed" => ~ret.result

\* C1, amended: isReady() returns true after a successful initialize();
\* before initialize() and after close() it returns false as long as
\* DB_INITIALIZED is not 'true'; once it is, isReady() re-creates the pool
\* and returns true, unless constructing the pool fails.
C1_IsReadyFollowsLifecycleUnlessSignalled ==
    ret.op = "isReady" =>
        /\ ret.phase = "initOk" => ret.result
        /\ ret.phase \in {"fresh", "closed"} /\ ~ret.signal => ~ret.result
        /\ ret.phase \in {"fresh", "closed"} /\ ret.signal =>
              (ret.result <=> ~ret.reinitFailed)

\* An isReady() call after close(), with the signal published: it re-created
\* the pool and returned true.
C1_Witness ==
    /\ ret.op = "isReady"
    /\ ret.phase = "closed"
    /\ ret.signal
    /\ ret.result
    /\ nextPool > 2

\* C2: an initialize() call that fails at any step leaves the manager
\* uninitialized: the flag is false, a following query() fails with the
\* not-initialized error, a following isReady() is false (stated here for the
\* calls made while DB_INITIALIZED is not published, when isReady() has no
\* side effect), and a following initialize() is not skipped as already
\* initialized.
C2_FailedInitializeLeavesUninitialized ==
    /\ ret.op = "initialize" /\ ret.outcome = "error" => ~isInitialized
    /\ ret.op = "query" /\ ret.phase = "initFailed" =>
          ret.result = "error_not_initialized"
    /\ ret.op = "isReady" /\ ret.phase = "initFailed" /\ ~ret.signal => ~ret.result
    /\ ret.op = "initialize" /\ ret.phase = "initFailed" => ret.at # "guard"

\* C6: logApiCall() never throws: it returns without inserting when the
\* manager is not ready, stores the placeholder for every header or body
\* object that cannot be serialized, and returns normally when the insert
\* fails.
C6_LogApiCallNeverThrows ==
    ret.op = "logApiCall" =>
        /\ ret.outcome \in {"returned_not_ready", "returned_inserted",
                            "returned_insert_failed"}
        /\ ~Ready => ret.outcome = "returned_not_ready"
        /\ ret.outcome # "returned_inserted" => Len(apiLogs) = ret.rowsBefore
        /\ ret.outcome = "returned_inserted" =>
              /\ Len(apiLogs) = ret.rowsBefore + 1
              /\ LET row == apiLogs[Len(apiLogs)]
                     Stored(given, col) ==
                         StringifyThrows(given) => col = StringifyPlaceholder
                 IN /\ Stored(ret.data.requestHeaders, row.request_headers)
                    /\ Stored(ret.data.requestBody, row.request_body)
                    /\ Stored(ret.data.responseHeaders, row.response_headers)
                    /\ Stored(ret.data.responseBody, row.response_body)

\* A logApiCall() given circular request headers returned after its insert.
C6_Witness ==
    /\ ret.op = "logApiCall"
    /\ ret.outcome = "returned_inserted"
    /\ StringifyThrows(ret.data.requestHeaders)
    /\ apiLogs[Len(apiLogs)].request_headers = StringifyPlaceholder

(***************************************************************************)
(* ApiClientBase: makeRequest and logToDatabase.                           *)
(***************************************************************************)
\* const maxRetries = 2
maxRetries == 2
\* setTimeout(resolve, 1000)
RetryDelayMs == 1000

BaseURL == "https://dummyjson.com"

\* The failure signature makeRequest() retries.
ClosedSignature == "context or browser has been closed"

\* What request.fetch() may produce: a response of some status, or an error.
Response(status) == [t |-> "response", status |-> status]
FetchError(message) == [t |-> "error", message |-> message]
ErrClosed == FetchError(<<"apiRequestContext.fetch: Target page, ", ClosedSignature>>)
ErrOther == FetchError(<<"apiRequestContext.fetch: Timeout 30000ms exceeded">>)
FetchResults == {Response(200), Response(400), ErrClosed, ErrOther}

\* The error a failed log write carries.
LogError == FetchError(<<"Failed to log API call">>)

IsResponse(r) == r.t = "response"

\* String.prototype.includes on a message made of fragments.
Includes(message, fragment) == \E k \in 1..Len(message) : message[k] = fragment

\* Date.now() - startTime of a frame, in ms.
ElapsedTimes == {0, 15}

\* What response.json() / response.text() leave in responseBody.
ResponseBodies == {BodyObj, Str("<html>"), Str("Unable to parse response")}

\* The calls the user and auth clients make: getUsers({limit: 5}) and
\* login(credentials).
QueryLimit5 == Obj("limit=5", FALSE)
ApiCalls ==
    { [method |-> "GET", endpoint |-> <<"/users">>,
       options |-> [headers |-> Undefined, data |-> Undefined,
                    params |-> QueryLimit5, testName |-> Str("pagination")]],
      [method |-> "POST", endpoint |-> <<"/auth/login">>,
       options |-> [headers |-> Undefined, data |-> BodyObj,
                    params |-> Undefined, testName |-> Str("login")]] }

\* The URL makeRequest() fetches: `${baseURL}${endpoint}`, followed by the
\* query string when options.params is given.
FetchUrl(endpoint, options) ==
    <<BaseURL>> \o endpoint \o
        (IF Falsy(options.params) THEN <<>> ELSE <<"?", options.params.name>>)

ShouldRetryAnyError(error, count) == count < maxRetries

\* The retry condition of makeRequest()'s catch block.
ShouldRetry(error, count) ==
    /\ error.t = "error"
    /\ Includes(error.message, ClosedSignature)
    /\ count < maxRetries

LogEntryErrorAsStatus(method, endpoint, options, response, body, executionTime) ==
    [testName |-> options.testName,
     endpoint |-> endpoint,
     method |-> method,
     requestHeaders |-> options.headers,
     requestBody |-> options.data,
     responseStatus |-> IF response = Null THEN Num(500) ELSE Num(response.status),
     responseHeaders |-> IF response = Null THEN Null ELSE HeadersObj,
     responseBody |-> IF response = Null THEN Null ELSE body,
     executionTimeMs |-> Num(executionTime)]

LogEntryWithoutStatus(method, endpoint, options, response, body, executionTime) ==
    [testName |-> options.testName,
     endpoint |-> endpoint,
     method |-> method,
     requestHeaders |-> options.headers,
     requestBody |-> options.data,
     responseStatus |-> Undefined,
     responseHeaders |-> Null,
     responseBody |-> Null,
     executionTimeMs |-> Num(executionTime)]

\* The entry logToDatabase() hands to logApiCall(): response is the response,
\* or Null on the error path; body is what was read from the response.
LogEntryOf(method, endpoint, options, response, body, executionTime) ==
    [testName |-> options.testName,
     endpoint |-> endpoint,
     method |-> method,
     requestHeaders |-> options.headers,
     requestBody |-> options.data,
     responseStatus |-> IF response = Null THEN Undefined ELSE Num(response.status),
     responseHeaders |-> IF response = Null THEN Null ELSE HeadersObj,
     responseBody |-> IF response = Null THEN Null ELSE body,
     executionTimeMs |-> Num(executionTime)]

makeRequestResultLogFailureSurfaces(fetched, logOutcome) ==
    IF logOutcome = "returned_insert_failed" THEN LogError ELSE fetched

\* What makeRequest() hands to its caller once logging is over: the response
\* it fetched (`return response`) or the error it caught (`throw error`).
makeRequestResult(fetched, logOutcome) == fetched

\* What a client call returns to its caller, with how it went.
RequestRet(result, logOutcome, history) ==
    [op |-> "request",
     call |-> req,
     outcome |-> IF IsResponse(result) THEN "response" ELSE "error",
     value |-> result,
     history |-> history,
     waitedMs |-> reqWaitedMs,
     rowsBefore |-> reqRowsBefore,
     logApiCalls |-> logApiCalls,
     logOutcome |-> logOutcome]

\* makeRequest() returns or throws: the frame is gone.
RequestReturns(result, logOutcome, history) ==
    /\ ret' = RequestRet(makeRequestResult(result, logOutcome), logOutcome, history)
    /\ reqHistory' = <<>>
    /\ reqPc' = "idle"
    /\ req' = Null
    /\ retryCount' = 0
    /\ reqFetched' = Null
    /\ reqElapsed' = Null
    /\ reqWaitedMs' = 0
    /\ reqRowsBefore' = 0

\* A client method (get/post/...) calls makeRequest(method, endpoint, options)
\* with retryCount = 0, which issues the fetch.
RequestCall ==
    /\ reqPc = "idle"
    /\ logPc = "idle"
    /\ Len(apiLogs) < MaxRows
    /\ \E call \in ApiCalls : req' = call
    /\ reqPc' = "fetch"
    /\ retryCount' = 0
    /\ reqHistory' = <<>>
    /\ reqWaitedMs' = 0
    /\ reqRowsBefore' = Len(apiLogs)
    /\ ret' = NoRet
    /\ UNCHANGED <<envVars, dbVars, initVars, closeVars, logVars, logApiCalls,
                   reqFetched, reqElapsed, startVars, runVars, phase>>

LoggingWantedAlways(enabled) == TRUE
\* The left operand of `this.logApiCalls && this.dbManager.isReady()`: the
\* right one is evaluated only when it is true.
LoggingWanted(enabled) == enabled

\* The fetch of the current frame settles with a response: shouldLog is
\* evaluated, and the response is returned at once or its body is read for
\* the log.
FetchResponds ==
    /\ reqPc = "fetch"
    /\ \E result \in FetchResults, elapsed \in ElapsedTimes, ctorOk \in BOOLEAN :
          /\ IsResponse(result)
          /\ IF LoggingWanted(logApiCalls) THEN isReady(ctorOk) ELSE UNCHANGED dbVars
          /\ IF LoggingWanted(logApiCalls) /\ isReadyResult
             THEN /\ reqPc' = "readBody"
                  /\ reqHistory' = Append(reqHistory, result)
                  /\ reqFetched' = result
                  /\ reqElapsed' = Num(elapsed)
                  /\ ret' = NoRet
                  /\ UNCHANGED <<req, retryCount, reqWaitedMs, reqRowsBefore>>
             ELSE RequestReturns(result, IF logApiCalls THEN "not_ready" ELSE "disabled",
                                 Append(reqHistory, result))
    /\ UNCHANGED <<envVars, initVars, closeVars, logVars, logApiCalls, startVars, runVars, phase>>

RetriedAttemptRowsLogged(rows, entry) == Append(rows, InsertValues(entry))
\* The log table once an attempt has been given up for a retry: the retry
\* branch leaves the catch block before its logging code.
RetriedAttemptRows(rows, entry) == rows

\* The fetch of the current frame throws: the error is retried after the
\* delay, or logged (when logging is on and the manager ready) and rethrown.
\* The isReady() of makeRequest() and the one inside logApiCall() run in the
\* same turn and act as one.
FetchThrows ==
    /\ reqPc = "fetch"
    /\ \E result \in FetchResults, elapsed \in ElapsedTimes, ctorOk \in BOOLEAN :
          /\ ~IsResponse(result)
          /\ IF ShouldRetry(result, retryCount)
             THEN /\ reqPc' = "delay"
                  /\ reqHistory' = Append(reqHistory, result)
                  /\ ret' = NoRet
                  /\ apiLogs' = RetriedAttemptRows(apiLogs,
                                     LogEntryOf(req.method, req.endpoint, req.options,
                                                Null, Null, elapsed))
                  /\ UNCHANGED <<dbVars, logPc, logRef, logData, logValues, req,
                                 retryCount, reqFetched, reqElapsed, reqWaitedMs,
                                 reqRowsBefore>>
             ELSE IF LoggingWanted(logApiCalls)
                  THEN /\ logApiCallBegin(
                              LogEntryOf(req.method, req.endpoint, req.options,
                                         Null, Null, elapsed), ctorOk)
                       /\ IF isReadyResult
                          THEN /\ reqPc' = "logging"
                               /\ reqHistory' = Append(reqHistory, result)
                               /\ reqFetched' = result
                               /\ reqElapsed' = Num(elapsed)
                               /\ ret' = NoRet
                               /\ UNCHANGED <<req, retryCount, reqWaitedMs,
                                              reqRowsBefore>>
                          ELSE RequestReturns(result, "not_ready",
                                              Append(reqHistory, result))
                  ELSE /\ RequestReturns(result, "disabled", Append(reqHistory, result))
                       /\ UNCHANGED <<dbVars, logVars>>
    /\ UNCHANGED <<envVars, initVars, closeVars, logApiCalls, startVars, runVars, phase>>

\* The retry delay is over: makeRequest() calls itself with retryCount + 1,
\* which issues the next fetch.
RetryDelayDone ==
    /\ reqPc = "delay"
    /\ reqPc' = "fetch"
    /\ retryCount' = retryCount + 1
    /\ reqWaitedMs' = reqWaitedMs + RetryDelayMs
    /\ ret' = NoRet
    /\ UNCHANGED <<envVars, dbVars, initVars, closeVars, logVars, logApiCalls, req,
                   reqFetched, reqElapsed, reqHistory, reqRowsBefore, startVars, runVars, phase>>

\* logToDatabase() has read the response body and calls logApiCall(); when
\* that returns at once (manager not ready) the response is returned.
ReadBodyDone ==
    /\ reqPc = "readBody"
    /\ \E body \in ResponseBodies, ctorOk \in BOOLEAN :
          /\ logApiCallBegin(
                 LogEntryOf(req.method, req.endpoint, req.options,
                            reqFetched, body, reqElapsed.n), ctorOk)
          /\ IF isReadyResult
             THEN /\ reqPc' = "logging"
                  /\ ret' = NoRet
                  /\ UNCHANGED <<req, retryCount, reqFetched, reqElapsed,
                                 reqHistory, reqWaitedMs, reqRowsBefore>>
             ELSE RequestReturns(reqFetched, "returned_not_ready", reqHistory)
    /\ UNCHANGED <<envVars, initVars, closeVars, logApiCalls, startVars, runVars, phase>>

\* The INSERT of the call's log row settles: logApiCall() and logToDatabase()
\* return, and makeRequest() returns the response or rethrows the error.
RequestLogDone ==
    /\ reqPc = "logging"
    /\ \E ok \in BOOLEAN :
          /\ logApiCallEnd(ok)
          /\ RequestReturns(reqFetched, logApiCallOutcome(ok), reqHistory)
    /\ UNCHANGED <<envVars, dbVars, initVars, closeVars, logApiCalls, startVars, runVars, phase>>

(***************************************************************************)
(* The request client of one worker process (SpecReq): one client call at  *)
(* a time, against a manager that is fresh or was initialized earlier.     *)
(***************************************************************************)
InitReq ==
    /\ \E published \in BOOLEAN :
          env = IF published
                THEN PublishEnv(EnvUnset, Str("localhost"), PublishedPort,
                                getConfig(EnvUnset).database, getConfig(EnvUnset).user,
                                getConfig(EnvUnset).password)
                ELSE EnvUnset
    /\ \E initialized \in BOOLEAN :
          /\ pool = IF initialized THEN 1 ELSE NoPool
          /\ isInitialized = initialized
          /\ nextPool = IF initialized THEN 2 ELSE 1
          /\ poolPort = [p \in PoolIds |->
                            IF initialized /\ p = 1 THEN getConfig(env).port ELSE 0]
          /\ phase = IF initialized THEN "initOk" ELSE "fresh"
    /\ poolEnded = {}
    /\ logApiCalls \in BOOLEAN
    /\ ReqIdle
    /\ docker = <<>>
    /\ StartIdle
    /\ DbCallsIdle
    /\ apiLogs = <<>>
    /\ ret = NoRet

NextReq ==
    \/ RequestCall
    \/ FetchResponds
    \/ FetchThrows
    \/ RetryDelayDone
    \/ ReadBodyDone
    \/ RequestLogDone

SpecReq == InitReq /\ [][NextReq]_vars

\* Every awaited operation of a client call settles: the fetch (it carries a
\* timeout), the retry timer, the body read and the INSERT.
FairSpecReq ==
    /\ SpecReq
    /\ WF_vars(FetchResponds \/ FetchThrows)
    /\ WF_vars(RetryDelayDone)
    /\ WF_vars(ReadBodyDone)
    /\ WF_vars(RequestLogDone)

(***************************************************************************)
(* Claims about the request client (SpecReq, FairSpecReq).                 *)
(***************************************************************************)
HasSignature(r) == r.t = "error" /\ Includes(r.message, ClosedSignature)

Last(h) == h[Len(h)]

\* The retry policy, at every point of a client call and at its return.
RetryPolicyState ==
    /\ reqPc \in {"fetch", "delay"} =>
          /\ \A k \in 1..Len(reqHistory) : HasSignature(reqHistory[k])
          /\ reqWaitedMs = RetryDelayMs * retryCount
          /\ Len(reqHistory) = IF reqPc = "fetch" THEN retryCount ELSE retryCount + 1
          /\ Len(reqHistory) <= maxRetries
    /\ ret.op = "request" =>
          /\ Len(ret.history) \in 1..(maxRetries + 1)
          /\ \A k \in 1..(Len(ret.history) - 1) : HasSignature(ret.history[k])
          /\ ret.waitedMs = RetryDelayMs * (Len(ret.history) - 1)
          /\ ret.outcome = IF IsResponse(Last(ret.history)) THEN "response" ELSE "error"
          /\ HasSignature(Last(ret.history)) => Len(ret.history) = maxRetries + 1

C4_LoggingNeverChangesOutcome ==
    ret.op = "request" =>
        /\ ret.value = Last(ret.history)
        /\ ret.outcome = IF IsResponse(Last(ret.history)) THEN "response" ELSE "error"

\* A call whose log insert failed and which returned its response.
C4_Witness ==
    /\ ret.op = "request"
    /\ ret.logOutcome = "returned_insert_failed"
    /\ ret.outcome = "response"
    /\ ret.value = Response(200)

\* C5: the response is handed back without waiting for the insert of the
\* call's log row: while that insert is in flight, no makeRequest() frame
\* holding a response is still waiting to return it.
C5_ResponseNotHeldBackByInsert ==
    (logPc = "insert" /\ reqPc # "idle") => ~IsResponse(reqFetched)

\* C7: with logging enabled and the manager ready, every HTTP attempt of a
\* call, also one that is retried, leaves one api_logs row, and the row of a
\* failed attempt has null response status, headers and body.
C7_OneRowPerAttempt ==
    (ret.op = "request" /\ ret.logApiCalls /\ ret.logOutcome = "returned_inserted") =>
        /\ Len(apiLogs) - ret.rowsBefore = Len(ret.history)
        /\ ret.outcome = "error" =>
              /\ Last(apiLogs).response_status = Null
              /\ Last(apiLogs).response_headers = Null
              /\ Last(apiLogs).response_body = Null

\* C8: with logging enabled, the manager ready and the insert succeeding, a
\* call that receives a response leaves exactly one new api_logs row, whose
\* method is the call's method, whose endpoint is the endpoint path given to
\* the client (no base URL, no query string) and whose response_status is the
\* status of the response returned, 2xx or not.
C8_ResponseLoggedOnce ==
    (ret.op = "request" /\ ret.outcome = "response" /\ ret.logApiCalls
        /\ ret.logOutcome = "returned_inserted") =>
        /\ Len(apiLogs) = ret.rowsBefore + 1
        /\ Last(apiLogs).method = ret.call.method
        /\ Last(apiLogs).endpoint = ret.call.endpoint
        /\ Last(apiLogs).endpoint \in {<<"/users">>, <<"/auth/login">>}
        /\ Last(apiLogs).response_status = Num(ret.value.status)

\* The user list requested with limit=5 was answered 200 and logged.
C8_Witness ==
    /\ ret.op = "request"
    /\ ret.call.options.params = QueryLimit5
    /\ FetchUrl(ret.call.endpoint, ret.call.options)
          = <<BaseURL, "/users", "?", "limit=5">>
    /\ ret.value = Response(200)
    /\ ret.logOutcome = "returned_inserted"
    /\ Len(apiLogs) = ret.rowsBefore + 1
    /\ Last(apiLogs).method = "GET"
    /\ Last(apiLogs).endpoint = <<"/users">>
    /\ Last(apiLogs).response_status = Num(200)


(***************************************************************************)
(* TestContainerManager and the container runtime it drives.               *)
(***************************************************************************)
MaxExisting == 2    \* containers on the host before the first start()
MaxStarts == 2      \* start() calls of one manager

PostgresPort == 5432
LabeledImage == "postgres:16-alpine"
OtherImage == "other"

\* The host port the runtime assigns to a container.
HostPortOf(id) == 55000 + id

\* The port mappings `docker ps` prints in {{.Ports}}, in the order listed.
PortsKinds == {"public", "loopback", "unpublished"}
PortsOf(id, kind) ==
    CASE kind = "public" ->
            <<[ip |-> "0.0.0.0", hostPort |-> HostPortOf(id), containerPort |-> PostgresPort]>>
      [] kind = "loopback" ->
            <<[ip |-> "127.0.0.1", hostPort |-> HostPortOf(id), containerPort |-> PostgresPort]>>
      [] kind = "unpublished" -> <<>>

Container(id, labeled, image, kind) ==
    [id |-> id, labeled |-> labeled, image |-> image, running |-> TRUE,
     ports |-> PortsOf(id, kind)]

\* The container PostgreSqlContainer(...).start() creates: the fixed image,
\* port 5432 exposed on a host port, the framework label.
NewContainer(id) == Container(id, TRUE, LabeledImage, "public")

\* The hosts start() may find: up to MaxExisting running containers, the
\* newest listed first.
ExistingDockers ==
    UNION {{[j \in 1..k |-> Container(k + 1 - j, a[j][1], a[j][2], a[j][3])] :
               a \in [1..k -> BOOLEAN \X {LabeledImage, OtherImage} \X PortsKinds]} :
           k \in 0..MaxExisting}

\* docker ps --filter "label=playwright-test=true"
RunningLabeled(c) == c.running /\ c.labeled
\* docker ps --filter "ancestor=postgres:16-alpine"
RunningLegacy(c) == c.running /\ c.image = LabeledImage

\* --format "{{.ID}},{{.Ports}}": one line per container.
Line(c) == [id |-> c.id, ports |-> c.ports]
Lines(sel) == [j \in 1..Len(sel) |-> Line(sel[j])]
PsLabel(d) == Lines(SelectSeq(d, RunningLabeled))
PsLegacy(d) == Lines(SelectSeq(d, RunningLegacy))

\* lines[0].split(','): the id, then the comma-separated port mappings.
ContainerInfo(line) == <<line.id>> \o line.ports

\* portsString.match(/0\.0\.0\.0:(\d+)->5432/): the digits captured, or null.
\* An empty {{.Ports}} has nothing to match.
PortMatchContainerPort(info) ==
    IF Len(info) >= 2 /\ info[2].ip = "0.0.0.0" /\ info[2].containerPort = PostgresPort
    THEN toString(info[2].containerPort) ELSE Null
PortMatch(info) ==
    IF Len(info) >= 2 /\ info[2].ip = "0.0.0.0" /\ info[2].containerPort = PostgresPort
    THEN toString(info[2].hostPort) ELSE Null

NotFound == [exists |-> FALSE]

\* The part of findExistingContainer() after the listings: the first line's
\* container and port, if the port parses to a non-zero number.
FindResult(out) ==
    IF out = <<>> THEN NotFound
    ELSE LET containerInfo == ContainerInfo(out[1])
             portMatch == PortMatch(containerInfo)
         IN  IF portMatch = Null THEN NotFound
             ELSE IF parseInt(portMatch) = 0 THEN NotFound
             ELSE [exists |-> TRUE, containerId |-> containerInfo[1],
                   port |-> parseInt(portMatch)]

\* What findExistingContainer() returns once the label command has run: its
\* failure is swallowed by the inner catch.
AfterLabelAttachFailureFatal(ok, out) == IF ok THEN FindResult(out) ELSE NotFound
AfterLabelAttach(ok, out) == FindResult(out)

Cmd(cmd, target, result, out) ==
    [cmd |-> cmd, target |-> target, result |-> result, out |-> out]
OkOrError(ok) == IF ok THEN "ok" ELSE "error"

StartRet(outcome, value, cmds) ==
    [op |-> "start", outcome |-> outcome, value |-> value,
     log |-> [startLog EXCEPT !.cmds = cmds]]

\* start() goes on with what findExistingContainer() returned: verify the
\* container found, or create one.
StartWith(found) ==
    /\ existingContainer' = found
    /\ startPc' = IF found.exists /\ found.port # 0 THEN "inspect" ELSE "create"

StartFrame == <<pool, isInitialized, nextPool, poolPort, poolEnded, initVars, closeVars,
                logVars, logApiCalls, reqVars, runVars, phase>>

\* start() up to the label-filtered listing.
StartCall ==
    /\ startPc = "idle"
    /\ starts < MaxStarts
    /\ starts' = starts + 1
    /\ startPc' = "psLabel"
    /\ startLog' = [cmds |-> <<>>, env |-> env, docker |-> docker, container |-> container]
    /\ stdout' = <<>>
    /\ existingContainer' = NotFound
    /\ ret' = NoRet
    /\ UNCHANGED <<env, docker, nextContainer, container, created, reused, StartFrame>>

\* The label-filtered listing returns or fails.
PsLabelDone ==
    /\ startPc = "psLabel"
    /\ \E ok \in BOOLEAN :
        LET out == IF ok THEN PsLabel(docker) ELSE <<>>
        IN  /\ startLog' = [startLog EXCEPT
                   !.cmds = Append(@, Cmd("ps-label", NoContainer, OkOrError(ok), out))]
            /\ stdout' = out
            /\ IF ~ok THEN StartWith(NotFound)
               ELSE IF out = <<>>
                    THEN startPc' = "psLegacy" /\ UNCHANGED existingContainer
                    ELSE StartWith(FindResult(out))
    /\ ret' = NoRet
    /\ UNCHANGED <<env, docker, nextContainer, container, starts, created, reused, StartFrame>>

\* The legacy-image listing returns or fails.
PsLegacyDone ==
    /\ startPc = "psLegacy"
    /\ \E ok \in BOOLEAN :
        LET out == IF ok THEN PsLegacy(docker) ELSE <<>>
        IN  /\ startLog' = [startLog EXCEPT
                   !.cmds = Append(@, Cmd("ps-legacy", NoContainer, OkOrError(ok), out))]
            /\ stdout' = out
            /\ IF ~ok THEN StartWith(NotFound)
               ELSE IF out = <<>>
                    THEN StartWith(FindResult(out))
                    ELSE startPc' = "updateLabel" /\ UNCHANGED existingContainer
    /\ ret' = NoRet
    /\ UNCHANGED <<env, docker, nextContainer, container, starts, created, reused, StartFrame>>

SetLabel(d, id) == [j \in 1..Len(d) |-> IF d[j].id = id THEN [d[j] EXCEPT !.labeled = TRUE] ELSE d[j]]

\* docker update --label on the first legacy container returns or fails.
UpdateLabelDone ==
    /\ startPc = "updateLabel"
    /\ \E ok \in BOOLEAN :
        LET containerId == stdout[1].id
        IN  /\ startLog' = [startLog EXCEPT
                   !.cmds = Append(@, Cmd("update-label", containerId, OkOrError(ok), <<>>))]
            /\ docker' = IF ok THEN SetLabel(docker, containerId) ELSE docker
            /\ StartWith(AfterLabelAttach(ok, stdout))
    /\ ret' = NoRet
    /\ UNCHANGED <<env, nextContainer, container, stdout, starts, created, reused, StartFrame>>

SetStopped(d, id) == [j \in 1..Len(d) |-> IF d[j].id = id THEN [d[j] EXCEPT !.running = FALSE] ELSE d[j]]
IsRunning(d, id) == \E j \in 1..Len(d) : d[j].id = id /\ d[j].running

\* getExistingContainerConfig(): docker inspect prints 'true', prints
\* 'false' (the container stopped after it was listed), or fails.
InspectDone ==
    /\ startPc = "inspect"
    /\ \E result \in {"true", "false", "error"} :
        LET id == existingContainer.containerId
            cmds == Append(startLog.cmds, Cmd("inspect", id, result, <<>>))
            config == getConfig(env)
        IN  /\ result = "true" => IsRunning(docker, id)
            /\ IF result = "true"
               THEN /\ env' = PublishEnv(env, Str("localhost"), existingContainer.port,
                                         config.database, config.user, config.password)
                    /\ ret' = StartRet("null", NoContainer, cmds)
                    /\ startPc' = "idle"
                    /\ startLog' = NoStartLog
                    /\ existingContainer' = NotFound
                    /\ stdout' = <<>>
                    /\ reused' = reused \cup {id}
                    /\ UNCHANGED docker
               ELSE /\ startPc' = "rm"
                    /\ startLog' = [startLog EXCEPT !.cmds = cmds]
                    /\ docker' = IF result = "false" THEN SetStopped(docker, id) ELSE docker
                    /\ ret' = NoRet
                    /\ UNCHANGED <<env, existingContainer, stdout, reused>>
    /\ UNCHANGED <<nextContainer, container, starts, created, StartFrame>>

RemoveEverything(d, id) == <<>>
\* The host once container id has been removed (docker rm -f, or the stop
\* of a container started by testcontainers).
Remove(d, id) == SelectSeq(d, LAMBDA c : c.id # id)

\* docker rm -f of the container that failed verification returns or fails.
RmDone ==
    /\ startPc = "rm"
    /\ \E ok \in BOOLEAN :
        LET id == existingContainer.containerId
        IN  /\ startLog' = [startLog EXCEPT
                   !.cmds = Append(@, Cmd("rm", id, OkOrError(ok), <<>>))]
            /\ docker' = IF ok THEN Remove(docker, id) ELSE docker
    /\ startPc' = "create"
    /\ ret' = NoRet
    /\ UNCHANGED <<env, nextContainer, container, stdout, existingContainer, starts, created, reused, StartFrame>>

\* What start() does with a rejected creation: nothing catches it.
CreateFailureSwallowed == "null"
CreateFailure == "error"

\* new PostgreSqlContainer(...).start() resolves or rejects.
CreateDone ==
    /\ startPc = "create"
    /\ \E ok \in BOOLEAN :
        LET id == nextContainer
            cmds == Append(startLog.cmds, Cmd("create", IF ok THEN id ELSE NoContainer,
                                              OkOrError(ok), <<>>))
            config == getConfig(env)
        IN  IF ok
            THEN /\ docker' = <<NewContainer(id)>> \o docker
                 /\ nextContainer' = nextContainer + 1
                 /\ container' = id
                 /\ created' = created \cup {id}
                 /\ env' = PublishEnv(env, Str("localhost"), HostPortOf(id),
                                      config.database, config.user, config.password)
                 /\ ret' = StartRet("handle", id, cmds)
            ELSE /\ ret' = StartRet(CreateFailure, NoContainer, cmds)
                 /\ UNCHANGED <<docker, nextContainer, container, env, created>>
    /\ startPc' = "idle"
    /\ startLog' = NoStartLog
    /\ existingContainer' = NotFound
    /\ stdout' = <<>>
    /\ UNCHANGED <<starts, reused, StartFrame>>

\* process.env.KEEP_CONTAINER_RUNNING === 'true'
keepContainerRunning(e) == e.KEEP_CONTAINER_RUNNING = Str("true")

StopRet(outcome, handle, before) ==
    [op |-> "stop", outcome |-> outcome, keep |-> keepContainerRunning(env),
     handle |-> handle, docker |-> before]

\* stop() up to container.stop(); it returns at once when the keep-alive
\* flag is set or no handle is tracked.
StopCall ==
    /\ stopPc = "idle"
    /\ IF keepContainerRunning(env)
       THEN /\ ret' = StopRet("kept", container, docker)
            /\ UNCHANGED stopPc
       ELSE IF container # NoContainer
            THEN /\ stopPc' = "stopping"
                 /\ ret' = NoRet
            ELSE /\ ret' = StopRet("nothing", container, docker)
                 /\ UNCHANGED stopPc
    /\ UNCHANGED <<env, startVars, hook>>
    /\ UNCHANGED <<pool, isInitialized, nextPool, poolPort, poolEnded, initVars, closeVars,
                   logVars, logApiCalls, reqVars, phase>>

StopHandleKept(ok, handle) == IF ok THEN handle ELSE NoContainer
StopHandle(ok, handle) == IF ok THEN NoContainer ELSE handle

\* container.stop() resolves, the container stopped and removed, or rejects.
StopDone ==
    /\ stopPc = "stopping"
    /\ \E ok \in BOOLEAN :
          /\ docker' = IF ok THEN Remove(docker, container) ELSE docker
          /\ container' = StopHandle(ok, container)
          /\ ret' = StopRet(IF ok THEN "stopped" ELSE "error", container, docker)
    /\ stopPc' = "idle"
    /\ UNCHANGED <<env, nextContainer, startPc, stdout, existingContainer, startLog,
                   starts, created, reused, hook>>
    /\ UNCHANGED <<pool, isInitialized, nextPool, poolPort, poolEnded, initVars, closeVars,
                   logVars, logApiCalls, reqVars, phase>>

\* A process on a host with some containers: the database name configured
\* or left to its default, the keep-alive flag set or not.
InitStart ==
    /\ env \in {EnvUnset, [EnvUnset EXCEPT !.DB_NAME = Str("custom_db")],
                [EnvUnset EXCEPT !.KEEP_CONTAINER_RUNNING = Str("true")]}
    /\ pool = NoPool
    /\ isInitialized = FALSE
    /\ nextPool = 1
    /\ poolPort = [p \in PoolIds |-> 0]
    /\ poolEnded = {}
    /\ logApiCalls = FALSE
    /\ ReqIdle
    /\ docker \in ExistingDockers
    /\ nextContainer = Len(docker) + 1
    /\ container = NoContainer
    /\ startPc = "idle"
    /\ stdout = <<>>
    /\ existingContainer = NotFound
    /\ startLog = NoStartLog
    /\ starts = 0
    /\ created = {}
    /\ reused = {}
    /\ stopPc = "idle"
    /\ hook = "none"
    /\ DbCallsIdle
    /\ apiLogs = <<>>
    /\ phase = "fresh"
    /\ ret = NoRet

NextStart ==
    \/ stopPc = "idle" /\ StartCall
    \/ PsLabelDone
    \/ PsLegacyDone
    \/ UpdateLabelDone
    \/ InspectDone
    \/ RmDone
    \/ CreateDone
    \/ startPc = "idle" /\ StopCall
    \/ StopDone

SpecStart == InitStart /\ [][NextStart]_vars


(***************************************************************************)
(* Claims about start() (SpecStart).                                       *)
(***************************************************************************)
StartReturned == ret.op = "start"
CmdsIssued == ret.log.cmds

\* The label-filtered listing returned at least one running container.
LabelMatch ==
    /\ StartReturned
    /\ CmdsIssued[1].cmd = "ps-label" /\ CmdsIssued[1].result = "ok"
    /\ CmdsIssued[1].out # <<>>

\* The label-filtered listing returned nothing and the legacy-image listing
\* returned at least one running container.
LegacyMatch ==
    /\ StartReturned
    /\ CmdsIssued[1].cmd = "ps-label" /\ CmdsIssued[1].result = "ok"
    /\ CmdsIssued[1].out = <<>>
    /\ Len(CmdsIssued) >= 2
    /\ CmdsIssued[2].cmd = "ps-legacy" /\ CmdsIssued[2].result = "ok"
    /\ CmdsIssued[2].out # <<>>

\* The host port a listed container publishes port 5432 on, 0 if none.
DiscoveredHostPort(line) ==
    IF \E j \in 1..Len(line.ports) : line.ports[j].containerPort = PostgresPort
    THEN line.ports[CHOOSE j \in 1..Len(line.ports) :
                        line.ports[j].containerPort = PostgresPort].hostPort
    ELSE 0

\* The first port mapping listed for the container reads 0.0.0.0:<port>->5432.
PortParses(line) ==
    /\ Len(line.ports) >= 1
    /\ line.ports[1].ip = "0.0.0.0"
    /\ line.ports[1].containerPort = PostgresPort
    /\ line.ports[1].hostPort # 0

\* The running-state verification of the container found did not succeed.
VerificationFailed ==
    \E j \in 1..Len(CmdsIssued) :
        CmdsIssued[j].cmd = "inspect" /\ CmdsIssued[j].result # "true"

NothingCreated ==
    /\ \A j \in 1..Len(CmdsIssued) : CmdsIssued[j].cmd # "create"
    /\ {docker[j].id : j \in 1..Len(docker)} \subseteq
           {ret.log.docker[j].id : j \in 1..Len(ret.log.docker)}

\* The environment start() leaves when it reuses the listed container.
PublishedFor(line) ==
    env = PublishEnv(ret.log.env, Str("localhost"), DiscoveredHostPort(line),
                     getConfig(ret.log.env).database, getConfig(ret.log.env).user,
                     getConfig(ret.log.env).password)

\* C9, as stated: whenever the label-filtered listing returns a matching
\* running container, start() returns null, creates no container, leaves the
\* manager's container handle unset and publishes localhost, that
\* container's host port and the configured database, user and password.
C9_LabelMatchIsReused ==
    LabelMatch =>
        /\ ret.outcome = "null"
        /\ NothingCreated
        /\ container = NoContainer
        /\ PublishedFor(CmdsIssued[1].out[1])

\* C9, amended: whenever the label-filtered listing returns a matching
\* running container whose first listed port mapping reads
\* 0.0.0.0:<port>->5432 and whose running-state verification does not fail,
\* start() returns null, creates no container, leaves the manager's
\* container handle as it was (unset unless an earlier start() of the same
\* manager created a container) and publishes localhost, that container's
\* host port and the configured database, user and password.
C9_ParsedVerifiedLabelMatchIsReused ==
    (LabelMatch /\ PortParses(CmdsIssued[1].out[1]) /\ ~VerificationFailed) =>
        /\ ret.outcome = "null"
        /\ NothingCreated
        /\ container = ret.log.container
        /\ ret.log.container = NoContainer => container = NoContainer
        /\ PublishedFor(CmdsIssued[1].out[1])

\* A start() that found a labeled container and reused it.
C9_Witness ==
    /\ LabelMatch
    /\ PortParses(CmdsIssued[1].out[1])
    /\ ret.outcome = "null"
    /\ container = NoContainer
    /\ env.DB_PORT = toString(HostPortOf(CmdsIssued[1].out[1].id))

\* In every start(), a legacy-image listing comes after the label-filtered
\* listing.
LabelQueryFirst ==
    StartReturned =>
        \A j \in 1..Len(CmdsIssued) :
            CmdsIssued[j].cmd = "ps-legacy" =>
                \E i \in 1..(j - 1) : CmdsIssued[i].cmd = "ps-label"

\* start() tried to attach the framework label to the listed container.
LabelAttachAttempted(line) ==
    /\ Len(CmdsIssued) >= 3
    /\ CmdsIssued[3].cmd = "update-label"
    /\ CmdsIssued[3].target = line.id

\* C10, as stated: with no label match but a running container of the
\* legacy image, start() reuses that container (returns null, publishes its
\* port) and attempts to attach the label to it, whether or not the
\* attachment succeeds; the label query always precedes the legacy query.
C10_LegacyMatchIsReused ==
    /\ LabelQueryFirst
    /\ LegacyMatch =>
          /\ LabelAttachAttempted(CmdsIssued[2].out[1])
          /\ ret.outcome = "null"
          /\ PublishedFor(CmdsIssued[2].out[1])

\* C10, amended: with no label match but a running container of the legacy
\* image, start() attempts to attach the label to that container and,
\* whether or not the attachment succeeds, reuses it (returns null,
\* publishes its port) provided its first listed port mapping reads
\* 0.0.0.0:<port>->5432 and its running-state verification does not fail;
\* the label query always precedes the legacy query.
C10_ParsedVerifiedLegacyMatchIsReused ==
    /\ LabelQueryFirst
    /\ LegacyMatch => LabelAttachAttempted(CmdsIssued[2].out[1])
    /\ (LegacyMatch /\ PortParses(CmdsIssued[2].out[1]) /\ ~VerificationFailed) =>
          /\ ret.outcome = "null"
          /\ PublishedFor(CmdsIssued[2].out[1])

\* A start() that reused a legacy container although the label command failed.
C10_Witness ==
    /\ LegacyMatch
    /\ CmdsIssued[3].cmd = "update-label" /\ CmdsIssued[3].result = "error"
    /\ ret.outcome = "null"
    /\ env.DB_PORT = toString(HostPortOf(CmdsIssued[2].out[1].id))

\* Both listings returned and neither listed a container.
NoMatch ==
    /\ StartReturned
    /\ Len(CmdsIssued) >= 2
    /\ CmdsIssued[1].cmd = "ps-label" /\ CmdsIssued[1].result = "ok"
    /\ CmdsIssued[1].out = <<>>
    /\ CmdsIssued[2].cmd = "ps-legacy" /\ CmdsIssued[2].result = "ok"
    /\ CmdsIssued[2].out = <<>>

\* The creation step of the start() call that returned resolved.
CreationSucceeded ==
    \E j \in 1..Len(CmdsIssued) :
        CmdsIssued[j].cmd = "create" /\ CmdsIssued[j].result = "ok"

\* The start() call that returned created exactly one container, keeps it
\* as the manager's handle, returned it, and the environment holds the host,
\* the host port the runtime assigned to it and the configured credentials.
CreatedOneAndPublished ==
    /\ ret.outcome = "handle"
    /\ ret.value # NoContainer
    /\ container = ret.value
    /\ Len(docker) = Len(ret.log.docker) + 1
    /\ docker[1].id = ret.value
    /\ docker[1].running /\ docker[1].labeled /\ docker[1].image = LabeledImage
    /\ \A j \in 1..Len(ret.log.docker) : docker[j + 1] = ret.log.docker[j]
    /\ env.DB_HOST = Str("localhost")
    /\ env.DB_PORT = toString(docker[1].ports[1].hostPort)
    /\ docker[1].ports[1].containerPort = PostgresPort
    /\ env.DB_NAME = getConfig(ret.log.env).database
    /\ env.DB_USER = getConfig(ret.log.env).user
    /\ env.DB_PASSWORD = getConfig(ret.log.env).password
    /\ env.DB_INITIALIZED = Str("true")

\* C11, as stated: whenever neither listing finds a container, start()
\* creates exactly one new container, records it as the manager's handle,
\* returns that handle and publishes the host, the assigned port and the
\* credentials of the new container.
C11_NoMatchCreatesOne ==
    NoMatch => CreatedOneAndPublished

\* C11, amended: whenever neither listing finds a container and the
\* creation of the container succeeds, start() creates exactly one new
\* container, records it as the manager's handle, returns that handle and
\* publishes the host, the assigned port and the credentials of the new
\* container; when the creation fails, start() throws, creates nothing,
\* leaves the handle as it was and publishes nothing.
C11_NoMatchCreatesOneUnlessCreationFails ==
    NoMatch =>
        /\ CreationSucceeded => CreatedOneAndPublished
        /\ ~CreationSucceeded =>
              /\ ret.outcome = "error"
              /\ docker = ret.log.docker
              /\ container = ret.log.container
              /\ env = ret.log.env

\* A start() that found nothing and returned the container it created.
C11_Witness ==
    /\ NoMatch
    /\ CreationSucceeded
    /\ ret.outcome = "handle"
    /\ container = ret.value
    /\ env.DB_PORT = toString(HostPortOf(ret.value))

(***************************************************************************)
(* Claims about stop() after start() (SpecStart).                          *)
(***************************************************************************)
StopReturned == ret.op = "stop"
RunningIds(d) == {d[j].id : j \in {k \in 1..Len(d) : d[k].running}}

\* The containers the stop() call that returned took away.
StoppedByStop == RunningIds(ret.docker) \ RunningIds(docker)

\* The containers start() reused and this manager did not create.
MerelyReused == reused \ created

\* C12, as stated: stop() with the keep-alive flag set stops nothing and
\* keeps the handle; with the flag unset it stops exactly the running
\* containers this manager created and clears the handle, and does nothing
\* when no handle is tracked; it never stops a merely reused container.
C12_StopStopsWhatManagerCreated ==
    StopReturned =>
        /\ ret.keep => (StoppedByStop = {} /\ container = ret.handle)
        /\ ~ret.keep =>
              /\ StoppedByStop = created \cap RunningIds(ret.docker)
              /\ RunningIds(docker) \cap created = {}
              /\ container = NoContainer
        /\ (~ret.keep /\ ret.handle = NoContainer) => docker = ret.docker
        /\ StoppedByStop \cap MerelyReused = {}

\* C12, amended: stop() with the keep-alive flag set stops nothing and keeps
\* the handle; with the flag unset it stops exactly the container the handle
\* tracks, which is the one this manager's start() created last, and clears
\* the handle when that stop succeeds, so that a following stop() does
\* nothing; when stopping fails stop() throws and keeps the handle; with no
\* handle it does nothing; it never stops a merely reused container.
C12_StopStopsTrackedHandle ==
    StopReturned =>
        /\ ret.keep =>
              (ret.outcome = "kept" /\ docker = ret.docker /\ container = ret.handle)
        /\ (~ret.keep /\ ret.handle = NoContainer) =>
              (ret.outcome = "nothing" /\ docker = ret.docker /\ container = NoContainer)
        /\ (~ret.keep /\ ret.handle # NoContainer) =>
              /\ ret.handle \in created
              /\ \A id \in created : id <= ret.handle
              /\ \/ /\ ret.outcome = "stopped"
                    /\ docker = Remove(ret.docker, ret.handle)
                    /\ container = NoContainer
                 \/ /\ ret.outcome = "error"
                    /\ docker = ret.docker
                    /\ container = ret.handle
        /\ StoppedByStop \cap MerelyReused = {}

\* A stop() that stopped the container this manager created and cleared the
\* handle.
C12_Witness ==
    /\ StopReturned
    /\ ~ret.keep
    /\ ret.outcome = "stopped"
    /\ StoppedByStop = {ret.handle}
    /\ ret.handle \in created
    /\ container = NoContainer

\* The running containers that carry the framework label or run the legacy
\* image.
FrameworkContainers(d) ==
    {d[j].id : j \in {k \in 1..Len(d) : RunningLabeled(d[k]) \/ RunningLegacy(d[k])}}

\* C13: whenever a running container carrying the framework label or
\* running the legacy image exists when start() is called, start() creates
\* no container next to it: it creates one only after the existing ones are
\* gone, and never adds a running framework container to existing ones.
C13_PrefersExistingContainer ==
    (StartReturned /\ FrameworkContainers(ret.log.docker) # {}) =>
        \/ ~CreationSucceeded
        \/ FrameworkContainers(ret.log.docker) \cap FrameworkContainers(docker) = {}

\* The listing start() went on with: the label listing, or the legacy
\* listing when the label listing was empty; empty when a listing failed.
ListingInUse ==
    IF CmdsIssued[1].result # "ok" THEN <<>>
    ELSE IF CmdsIssued[1].out # <<>> THEN CmdsIssued[1].out
    ELSE IF Len(CmdsIssued) >= 2 /\ CmdsIssued[2].cmd = "ps-legacy"
            /\ CmdsIssued[2].result = "ok"
         THEN CmdsIssued[2].out
         ELSE <<>>

\* A listing command failed, the port of the listed container did not
\* parse, or the running-state verification failed.
DiscoveryFailed ==
    \/ \E j \in 1..Len(CmdsIssued) :
          CmdsIssued[j].cmd \in {"ps-label", "ps-legacy"} /\ CmdsIssued[j].result = "error"
    \/ ListingInUse # <<>> /\ ~PortParses(ListingInUse[1])
    \/ VerificationFailed

LabelAttachFailed ==
    \E j \in 1..Len(CmdsIssued) :
        CmdsIssued[j].cmd = "update-label" /\ CmdsIssued[j].result = "error"

\* The last step of the start() call that returned was the creation.
CreationAttempted == CmdsIssued[Len(CmdsIssued)].cmd = "create"
CreationFailed ==
    CreationAttempted /\ CmdsIssued[Len(CmdsIssued)].result = "error"

\* A failed verification is followed by the forced removal of the container
\* and then, whatever the removal did, by the creation.
RemovedBeforeCreation ==
    \A j \in 1..Len(CmdsIssued) :
        (CmdsIssued[j].cmd = "inspect" /\ CmdsIssued[j].result # "true") =>
            /\ Len(CmdsIssued) = j + 2
            /\ CmdsIssued[j + 1].cmd = "rm"
            /\ CmdsIssued[j + 1].target = CmdsIssued[j].target
            /\ CmdsIssued[j + 2].cmd = "create"

\* start() throws exactly when the creation failed, and returns the handle
\* exactly when it succeeded.
FailsOnlyOnCreation ==
    /\ ret.outcome = "error" <=> CreationFailed
    /\ ret.outcome = "handle" <=> CreationSucceeded

\* C14, as stated: start() fails only when the creation fails; a failure of
\* a listing, of the label attachment, of the port parsing or of the
\* verification is swallowed and leads to the creation of a container, a
\* container failing verification being removed first, whatever the removal
\* does.
C14_OnlyCreationFailureIsFatal ==
    StartReturned =>
        /\ FailsOnlyOnCreation
        /\ (DiscoveryFailed \/ LabelAttachFailed) => CreationAttempted
        /\ RemovedBeforeCreation

\* C14, amended: start() fails only when the creation fails; a failure of a
\* listing, of the port parsing or of the verification is swallowed and
\* leads to the creation of a container, a container failing verification
\* being removed first, whatever the removal does; a failure of the label
\* attachment is swallowed and changes nothing: the legacy container is
\* reused or replaced exactly as if the label had been attached.
C14_OnlyCreationFailureIsFatalLabelIgnored ==
    StartReturned =>
        /\ FailsOnlyOnCreation
        /\ DiscoveryFailed => CreationAttempted
        /\ (LabelAttachFailed /\ ~DiscoveryFailed) =>
              (~CreationAttempted /\ ret.outcome = "null")
        /\ RemovedBeforeCreation

\* A start() that returned a new container after the verification of the
\* container found and its forced removal both failed.
C14_Witness ==
    /\ StartReturned
    /\ ret.outcome = "handle"
    /\ \E j \in 1..Len(CmdsIssued) :
          /\ CmdsIssued[j].cmd = "inspect" /\ CmdsIssued[j].result = "error"
          /\ CmdsIssued[j + 1].cmd = "rm" /\ CmdsIssued[j + 1].result = "error"

(***************************************************************************)
(* A test run: global setup, then global teardown, in one process.         *)
(***************************************************************************)
\* process.env.LOG_API_CALLS === 'true'
logApiCallsEnabled(e) == e.LOG_API_CALLS = Str("true")

HookFrame == <<env, initVars, closeVars, logVars, reqVars, startVars, stopPc, phase>>

\* globalSetup() up to containerManager.start(); it returns at once when
\* logging is disabled.
GlobalSetupCall ==
    /\ hook = "fresh"
    /\ hook' = IF logApiCallsEnabled(env) THEN "setupStart" ELSE "setupSkipped"
    /\ ret' = NoRet
    /\ UNCHANGED <<dbVars, HookFrame>>

SetupCatchSwallows == "setupDone"
\* The catch block of globalSetup(): it reports the error and rethrows it.
SetupCatch == "setupFailed"

\* globalSetup() resumes from start(): a failure is rethrown, otherwise the
\* two-second wait begins.
SetupStartReturned ==
    /\ hook = "setupStart"
    /\ ret.op = "start"
    /\ hook' = IF ret.outcome = "error" THEN SetupCatch ELSE "setupWait"
    /\ ret' = NoRet
    /\ UNCHANGED <<dbVars, HookFrame>>

\* The wait is over: globalSetup() reads the configuration again and calls
\* initialize().
SetupWaitDone ==
    /\ hook = "setupWait"
    /\ hook' = "setupInit"
    /\ ret' = NoRet
    /\ UNCHANGED <<dbVars, HookFrame>>

\* globalSetup() resumes from initialize(): a failure is rethrown, otherwise
\* isReady() is consulted and the setup completes.
SetupInitializeReturned ==
    /\ hook = "setupInit"
    /\ ret.op = "initialize"
    /\ IF ret.outcome = "error"
       THEN hook' = SetupCatch /\ UNCHANGED dbVars
       ELSE hook' = "setupDone" /\ \E ctorOk \in BOOLEAN : isReady(ctorOk)
    /\ ret' = NoRet
    /\ UNCHANGED HookFrame

\* globalTeardown() up to dbManager.close(); it returns at once when logging
\* is disabled.
GlobalTeardownCall ==
    /\ hook \in {"setupSkipped", "setupDone", "setupFailed"}
    /\ hook' = IF logApiCallsEnabled(env) THEN "teardownClose" ELSE "teardownSkipped"
    /\ ret' = NoRet
    /\ UNCHANGED <<dbVars, HookFrame>>

TeardownCatchRethrows == "teardownThrew"
\* The catch block of globalTeardown(): it reports the error and returns.
TeardownCatch == "teardownFailed"

TeardownAfterCloseStopsAnyway(closed, keep) ==
    IF keep THEN "teardownDone" ELSE "teardownStop"
TeardownAfterCloseNeverStops(closed, keep) ==
    IF ~closed THEN "teardownFailed" ELSE "teardownDone"
\* Where globalTeardown() goes once close() has settled: a failure is caught
\* and reported, which skips the stop; the keep-alive flag skips it too.
TeardownAfterClose(closed, keep) ==
    IF ~closed THEN TeardownCatch
    ELSE IF keep THEN "teardownDone" ELSE "teardownStop"

\* globalTeardown() resumes from close().
TeardownCloseReturned ==
    /\ hook = "teardownClose"
    /\ ret.op = "close"
    /\ hook' = TeardownAfterClose(ret.outcome \in {"ok", "noop"}, keepContainerRunning(env))
    /\ ret' = NoRet
    /\ UNCHANGED <<dbVars, HookFrame>>

\* globalTeardown() resumes from stop(): a failure is caught and reported.
TeardownStopReturned ==
    /\ hook = "teardownStop"
    /\ ret.op = "stop"
    /\ hook' = IF ret.outcome = "error" THEN TeardownCatch ELSE "teardownDone"
    /\ ret' = NoRet
    /\ UNCHANGED <<dbVars, HookFrame>>

\* A run about to begin on a host with some containers: logging enabled or
\* not, the keep-alive flag set or not.
InitRun ==
    /\ env \in {[EnvUnset EXCEPT !.LOG_API_CALLS = l, !.KEEP_CONTAINER_RUNNING = k] :
                   l \in {Undefined, Str("true")}, k \in {Undefined, Str("true")}}
    /\ pool = NoPool
    /\ isInitialized = FALSE
    /\ nextPool = 1
    /\ poolPort = [p \in PoolIds |-> 0]
    /\ poolEnded = {}
    /\ logApiCalls = logApiCallsEnabled(env)
    /\ ReqIdle
    /\ docker \in ExistingDockers
    /\ nextContainer = Len(docker) + 1
    /\ container = NoContainer
    /\ startPc = "idle"
    /\ stdout = <<>>
    /\ existingContainer = NotFound
    /\ startLog = NoStartLog
    /\ starts = 0
    /\ created = {}
    /\ reused = {}
    /\ stopPc = "idle"
    /\ hook = "fresh"
    /\ DbCallsIdle
    /\ apiLogs = <<>>
    /\ phase = "fresh"
    /\ ret = NoRet

NextRun ==
    \/ GlobalSetupCall
    \/ hook = "setupStart" /\ ret = NoRet /\ StartCall
    \/ PsLabelDone
    \/ PsLegacyDone
    \/ UpdateLabelDone
    \/ InspectDone
    \/ RmDone
    \/ CreateDone
    \/ SetupStartReturned
    \/ SetupWaitDone
    \/ hook = "setupInit" /\ ret = NoRet /\ InitializeCall("setup")
    \/ InitializeSelectDone("setup")
    \/ InitializeConnectDone("setup")
    \/ InitializeSchemaStmt("setup")
    \/ SetupInitializeReturned
    \/ GlobalTeardownCall
    \/ hook = "teardownClose" /\ ret = NoRet /\ CloseCall
    \/ CloseEndDone
    \/ TeardownCloseReturned
    \/ hook = "teardownStop" /\ ret = NoRet /\ StopCall
    \/ StopDone
    \/ TeardownStopReturned

SpecRun == InitRun /\ [][NextRun]_vars

(***************************************************************************)
(* Claims about a run (SpecRun).                                           *)
(***************************************************************************)
\* The container the run's setup discovered and reused, or created.
UsedByRun == created \cup reused

\* globalTeardown() of a run with logging enabled has returned.
TeardownOver == hook \in {"teardownDone", "teardownFailed"}

ConfigFollowsPublishedPort ==
    DbInitializedSignal(env) =>
        /\ getConfig(env).port = PublishedPort
        /\ getConfig(env).host = Str("localhost")

\* A step that builds a pool once start() has published its port: the pool
\* targets the published port.
PoolBuiltAfterStartTargetsPublishedPort ==
    (DbInitializedSignal(env) /\ nextPool' > nextPool) =>
        (pool' = nextPool /\ poolPort'[nextPool] = PublishedPort)

\* C16: after start() has published port P every later getConfig() returns
\* P, and the pool that initialize() or isReady()'s re-creation builds
\* afterwards targets P, not a value read before start().
C16_ConfigRecomputedOnEveryRead ==
    /\ []ConfigFollowsPublishedPort
    /\ [][PoolBuiltAfterStartTargetsPublishedPort]_vars

\* A pool built before start() targets the default port and the pool built
\* after it targets the published port.
C16_Witness ==
    /\ DbInitializedSignal(env)
    /\ pool = 2
    /\ poolPort[2] = PublishedPort
    /\ poolPort[1] = DefaultPort
    /\ PublishedPort # DefaultPort

(***************************************************************************)
(* Claims about initialize() and close() called one after the other (Spec). *)
(***************************************************************************)
\* A step in which initialize() is called while no call is suspended.
InitializeCalled ==
    /\ \A i \in InitCallers : initPc[i] = "idle"
    /\ \/ ret'.op = "initialize"
       \/ \E i \in InitCallers : initPc'[i] # "idle"

\* C17: an initialize() call made after an earlier initialize() completed
\* successfully, and before any close(), is a no-op: it returns from the
\* guard, builds no pool, starts no connectivity check and no schema
\* statement, and leaves the pool handle and the flag as they were.
C17_InitializeIdempotent ==
    [][(phase = "initOk" /\ InitializeCalled) =>
          /\ ret'.op = "initialize" /\ ret'.outcome = "ok" /\ ret'.at = "guard"
          /\ initPc' = initPc /\ initRef' = initRef
          /\ pool' = pool /\ isInitialized' = isInitialized
          /\ nextPool' = nextPool /\ poolPort' = poolPort /\ poolEnded' = poolEnded
          /\ isInitialized /\ pool # NoPool]_vars

\* A second initialize() returned from the guard on an initialized manager.
C17_Witness ==
    /\ ret.op = "initialize"
    /\ ret.phase = "initOk"
    /\ ret.at = "guard"
    /\ isInitialized
    /\ pool = 1 /\ nextPool = 2

(***************************************************************************)
(* Overlapping initialize() calls, with isReady() and close() called at    *)
(* any of their suspension points.                                         *)
(***************************************************************************)
NextOverlap ==
    \/ StartPublishes
    \/ \E i \in InitCallers : InitializeCall(i)
    \/ \E i \in InitCallers : InitializeSelectDone(i)
    \/ \E i \in InitCallers : InitializeConnectDone(i)
    \/ \E i \in InitCallers : InitializeSchemaStmt(i)
    \/ IsReadyCall
    \/ CloseCall
    \/ CloseEndDone

SpecOverlap == Init /\ [][NextOverlap]_vars

\* isReady() returns what the flag and the pool handle are when it returns.
IsReadyReturnsReady == ret.op = "isReady" => (ret.result <=> Ready)

\* The manager stops being ready only in the step in which a close() call
\* resumes from pool.end().
ReadyUntilClose ==
    (Ready /\ ~Ready') => (closePc = "ending" /\ closePc' = "idle")

\* C18: with two initialize() calls overlapping, under every interleaving
\* and whichever of them fails, once isReady() has returned true every later
\* isReady() returns true until close() is called.
C18_IsReadyDoesNotOscillate ==
    /\ []IsReadyReturnsReady
    /\ [][ReadyUntilClose]_vars

\* isReady() returns true while two initialize() calls are suspended, one
\* of them having set the flag.
C18_Witness ==
    /\ ret.op = "isReady"
    /\ ret.result
    /\ \A i \in InitCallers : initPc[i] # "idle"
    /\ closePc = "idle"


(***************************************************************************)
(* close(), called one call after the other (Spec).                        *)
(***************************************************************************)
\* A close() that returned normally left neither a pool handle nor the flag.
CloseClears ==
    (ret.op = "close" /\ ret.outcome \in {"ok", "noop"}) =>
        (pool = NoPool /\ ~isInitialized)

\* close() called without a pool does nothing and returns normally.
CloseWithoutPoolIsNoop ==
    (closePc = "idle" /\ pool = NoPool /\ ret'.op = "close") =>
        (ret'.outcome = "noop" /\ UNCHANGED dbVars)

\* close() called with a pool calls end() on it.
CloseEndsCurrentPool ==
    (closePc = "idle" /\ pool # NoPool /\ closePc' = "ending") =>
        (pool \in poolEnded' /\ closeRef' = pool)

\* Whenever close() has returned, neither a pool handle nor the flag is left.
CloseAlwaysClears == ret.op = "close" => (pool = NoPool /\ ~isInitialized)

\* end() is not called on a pool it was already called on.
NoPoolEndedTwice == ret.op = "close" => ret.outcome # "error_ended_twice"

\* The handle still holds a pool on which end() has been called and returned.
EndedPoolStillCurrent ==
    pool # NoPool /\ pool \in poolEnded /\ closePc = "idle"

\* Only a rejected end() leaves an ended pool in the handle.
EndedPoolKeptOnlyByRejectedEnd ==
    (~EndedPoolStillCurrent /\ EndedPoolStillCurrent') =>
        (ret'.op = "close" /\ ret'.outcome = "error_end")

\* end() is called a second time on a pool only when a rejected end() left
\* that pool in the handle.
EndedTwiceOnlyAfterRejectedEnd ==
    (ret'.op = "close" /\ ret'.outcome = "error_ended_twice") =>
        (EndedPoolStillCurrent /\ UNCHANGED dbVars)

\* C19, as stated: close() ends the current pool, clears the pool handle and
\* marks the manager uninitialized; called when already closed or never
\* initialized it does nothing and does not fail; and over any sequence of
\* close() calls made one after the other no pool is ended more than once.
C19_CloseIdempotentEndsOnce ==
    /\ [](CloseAlwaysClears /\ NoPoolEndedTwice)
    /\ [][CloseWithoutPoolIsNoop /\ CloseEndsCurrentPool]_vars

\* C19, amended: close() calls end() on the current pool and, when end()
\* resolves, clears the pool handle and marks the manager uninitialized;
\* called without a pool it does nothing and returns normally, so a close()
\* after a close() that returned normally is a no-op.  When end() rejects,
\* close() fails before clearing anything, and only then does a later close()
\* call end() on the same pool a second time, failing again.
C19_CloseIdempotentUnlessEndRejects ==
    /\ []CloseClears
    /\ [][/\ CloseWithoutPoolIsNoop
          /\ CloseEndsCurrentPool
          /\ EndedPoolKeptOnlyByRejectedEnd
          /\ EndedTwiceOnlyAfterRejectedEnd]_vars

\* C19's case: close() called on a manager whose pool an earlier close() has
\* ended and cleared returns as a no-op.
C19_Witness ==
    /\ ret.op = "close"
    /\ ret.outcome = "noop"
    /\ poolEnded # {}
    /\ pool = NoPool
    /\ ~isInitialized


(***************************************************************************)
(* The row logApiCall() stores, read back (Spec).                          *)
(***************************************************************************)
\* What reading a JSONB column yields: the value its text denotes, or NULL.
JsonParse(col) == IF col.t = "json" THEN col.of ELSE col

\* A field that the entry does not carry.
Absent(v) == v.t \in {"undefined", "null"}

\* A scalar column read back is the entry's value; a field the entry does
\* not carry reads back as NULL.
SameOnReadBack(given, col) == IF Absent(given) THEN col = Null ELSE col = given

\* A payload column read back denotes the entry's payload, for a payload
\* that has a JSON text.
JsonEquivalentOnReadBack(given, col) ==
    IF Absent(given)
    THEN col = Null
    ELSE StringifyThrows(given) \/ JsonParse(col) = given

\* The row read back carries what the entry carried.
RoundTrips(data, row) ==
    /\ SameOnReadBack(data.testName, row.test_name)
    /\ row.endpoint = data.endpoint
    /\ row.method = data.method
    /\ SameOnReadBack(data.responseStatus, row.response_status)
    /\ SameOnReadBack(data.executionTimeMs, row.execution_time_ms)
    /\ JsonEquivalentOnReadBack(data.requestHeaders, row.request_headers)
    /\ JsonEquivalentOnReadBack(data.requestBody, row.request_body)
    /\ JsonEquivalentOnReadBack(data.responseHeaders, row.response_headers)
    /\ JsonEquivalentOnReadBack(data.responseBody, row.response_body)

\* C20: for every entry passed to logApiCall() on a ready manager, the row
\* it stored, read back, has the entry's testName, endpoint, method, response
\* status and executionTimeMs, also when these are 0 or the empty string, and
\* payloads that are JSON-equivalent to the entry's.
C20_LogEntryRoundTrips ==
    (ret.op = "logApiCall" /\ ret.outcome = "returned_inserted") =>
        RoundTrips(ret.data, apiLogs[Len(apiLogs)])

\* The same for entries whose testName, status and execution time are not
\* 0 or the empty string.
NoFalsyScalar(data) ==
    /\ Absent(data.testName) \/ ~Falsy(data.testName)
    /\ Absent(data.responseStatus) \/ ~Falsy(data.responseStatus)
    /\ Absent(data.executionTimeMs) \/ ~Falsy(data.executionTimeMs)

TruthyLogEntryRoundTrips ==
    (ret.op = "logApiCall" /\ ret.outcome = "returned_inserted"
        /\ NoFalsyScalar(ret.data)) =>
        RoundTrips(ret.data, apiLogs[Len(apiLogs)])


(***************************************************************************)
(* Which failures end global setup (SpecRun).                              *)
(***************************************************************************)
\* globalSetup() resumes from the start() call that has just returned.
SetupResumesFromStart == hook = "setupStart" /\ StartReturned /\ hook' # hook

\* globalSetup() resumes from the initialize() call that has just returned.
SetupResumesFromInitialize ==
    hook = "setupInit" /\ ret.op = "initialize" /\ hook' # hook

\* The initialize() call that returned failed in its connectivity check.
ConnectivityCheckFailed ==
    ret.op = "initialize" /\ ret.outcome = "error" /\ ret.at = "select1"

\* The initialize() call that returned failed in createSchemaAndTables().
SchemaCreationFailed ==
    /\ ret.op = "initialize" /\ ret.outcome = "error"
    /\ ret.at \in {"getClient", "connect"} \cup
                  {SchemaStatements[k] : k \in 1..Len(SchemaStatements)}

\* A failed container creation, connectivity check or schema creation is
\* rethrown by globalSetup().
FatalErrorsAbortSetup ==
    /\ (SetupResumesFromStart /\ CreationFailed) => hook' = "setupFailed"
    /\ (SetupResumesFromInitialize /\ (ConnectivityCheckFailed \/ SchemaCreationFailed))
          => hook' = "setupFailed"

\* globalSetup() fails only out of start(), on a failed creation, or out of
\* initialize(); a start() that returned goes on to initialize() whatever
\* failed in discovery, labelling or verification.
OnlyFatalErrorsAbortSetup ==
    /\ (hook # "setupFailed" /\ hook' = "setupFailed") =>
          \/ SetupResumesFromStart /\ CreationFailed
          \/ SetupResumesFromInitialize /\ ret.outcome = "error"
    /\ (SetupResumesFromStart /\ ~CreationFailed) => hook' = "setupWait"

\* C21: with logging enabled, a failed container creation, a failed
\* connectivity check and a failed schema creation each make globalSetup()
\* rethrow instead of completing, and nothing that fails in container
\* discovery, labelling or verification makes it fail.
C21_OnlyFatalErrorsAbortSetup ==
    [][FatalErrorsAbortSetup /\ OnlyFatalErrorsAbortSetup]_vars

\* C21's cases: a setup that failed because schema creation failed after the
\* connectivity check had passed, on a container created next to a running
\* framework container that discovery did not deliver.
C21_Witness ==
    /\ hook = "setupFailed"
    /\ phase = "initFailed"
    /\ isInitialized
    /\ created # {}
    /\ FrameworkContainers(docker) \ created # {}


(***************************************************************************)
(* The order in which the hooks run the components (SpecRun).              *)
(***************************************************************************)
\* A step in which a pool is built.
PoolBuilt == nextPool' # nextPool

\* A step in which stop() is called.
StopCalled == stopPc = "idle" /\ (stopPc' # "idle" \/ ret'.op = "stop")

\* The pool is built only by the setup's initialize(), once start() has
\* returned with a container reused or created and its coordinates published.
InitializeAfterStart ==
    PoolBuilt =>
        /\ hook = "setupInit"
        /\ startPc = "idle"
        /\ starts = 1
        /\ created \cup reused # {}
        /\ DbInitializedSignal(env)
        /\ poolPort'[pool'] = getConfig(env).port

\* stop() is called only by the teardown, once close() has returned normally:
\* no pool is left and none is being ended.
StopAfterClose ==
    StopCalled =>
        /\ hook = "teardownStop"
        /\ pool = NoPool
        /\ ~isInitialized
        /\ closePc = "idle"
        /\ \A i \in InitCallers : initPc[i] = "idle"

\* No container is stopped or removed while a pool is open.
ContainerStoppedAfterPoolClosed ==
    (hook \in {"teardownClose", "teardownStop"} /\ docker' # docker) =>
        (pool = NoPool /\ hook = "teardownStop")

\* Each component is run at most once.
OncePerRun ==
    /\ starts <= 1
    /\ nextPool <= 2
    /\ Cardinality(poolEnded) <= 1

\* C22: in global setup the pool is initialized only after start() has
\* completed and published its coordinates; in global teardown the pool is
\* closed before the container is stopped, and the stop is attempted only
\* after close() has completed without error; each of them runs once per run.
C22_HooksRunComponentsInOrder ==
    /\ []OncePerRun
    /\ [][InitializeAfterStart /\ StopAfterClose /\ ContainerStoppedAfterPoolClosed]_vars

\* C22's case: a run that started a container, initialized a pool on it,
\* closed the pool and then stopped the container.
C22_Witness ==
    /\ hook = "teardownDone"
    /\ starts = 1
    /\ poolEnded = {1}
    /\ pool = NoPool
    /\ phase = "closed"
    /\ created # {}
    /\ created \cap RunningIds(docker) = {}


(***************************************************************************)
(* A client call that finally fails, with logging enabled (SpecReq).       *)
(***************************************************************************)
\* A client call has thrown after logApiCall() was called for it on a ready
\* manager.
FailedAndLogged ==
    /\ ret.op = "request"
    /\ ret.outcome = "error"
    /\ ret.logApiCalls
    /\ ret.logOutcome \in {"returned_inserted", "returned_insert_failed"}

\* The row of a failed request: what was requested, and no response.
ErrorRow(call, row) ==
    /\ row.method = call.method
    /\ row.endpoint = call.endpoint
    /\ JsonEquivalentOnReadBack(call.options.headers, row.request_headers)
    /\ JsonEquivalentOnReadBack(call.options.data, row.request_body)
    /\ row.response_status = Null
    /\ row.response_headers = Null
    /\ row.response_body = Null

\* C23: when a request finally fails, on an error that is not retried or on
\* the retried one once the retries are used up, with logging enabled and
\* the manager ready, one row with the request's method, endpoint, headers
\* and body and with null response status, headers and body has been
\* written when the error is rethrown, unless the write failed, in which
\* case no row has; and the error thrown is the request's own error in
\* either case.
C23_FinalFailureLoggedOnceAndRethrown ==
    FailedAndLogged =>
        /\ ret.value = Last(ret.history)
        /\ ~IsResponse(ret.value)
        /\ HasSignature(ret.value) => Len(ret.history) = maxRetries + 1
        /\ IF ret.logOutcome = "returned_inserted"
           THEN /\ Len(apiLogs) = ret.rowsBefore + 1
                /\ ErrorRow(ret.call, Last(apiLogs))
           ELSE Len(apiLogs) = ret.rowsBefore

\* C23's case: a call that met the retried failure three times, was logged
\* with no response and threw that failure.
C23_Witness ==
    /\ FailedAndLogged
    /\ ret.logOutcome = "returned_inserted"
    /\ Len(ret.history) = maxRetries + 1
    /\ HasSignature(ret.value)
    /\ Len(apiLogs) = 1
    /\ Last(apiLogs).response_status = Null
    /\ Last(apiLogs).request_body # Null


(***************************************************************************)
(* A whole run: global setup, the client calls of the tests, global        *)
(* teardown (SpecRunTests).  The environment may already carry the         *)
(* coordinates of a database when the run begins.                          *)
(***************************************************************************)
\* The tests run between a setup that returned and the teardown.
TestsRunning == hook \in {"setupSkipped", "setupDone"}

InitRunTests ==
    /\ \E l \in {Undefined, Str("true"), Str("false")}, k \in {Undefined, Str("true")},
          published \in BOOLEAN :
          env = [(IF published
                  THEN PublishEnv(EnvUnset, Str("localhost"), PublishedPort,
                                  getConfig(EnvUnset).database, getConfig(EnvUnset).user,
                                  getConfig(EnvUnset).password)
                  ELSE EnvUnset)
                 EXCEPT !.LOG_API_CALLS = l, !.KEEP_CONTAINER_RUNNING = k]
    /\ pool = NoPool
    /\ isInitialized = FALSE
    /\ nextPool = 1
    /\ poolPort = [p \in PoolIds |-> 0]
    /\ poolEnded = {}
    /\ logApiCalls = logApiCallsEnabled(env)
    /\ ReqIdle
    /\ docker \in ExistingDockers
    /\ nextContainer = Len(docker) + 1
    /\ container = NoContainer
    /\ startPc = "idle"
    /\ stdout = <<>>
    /\ existingContainer = NotFound
    /\ startLog = NoStartLog
    /\ starts = 0
    /\ created = {}
    /\ reused = {}
    /\ stopPc = "idle"
    /\ hook = "fresh"
    /\ DbCallsIdle
    /\ apiLogs = <<>>
    /\ phase = "fresh"
    /\ ret = NoRet

NextRunTests ==
    \/ GlobalSetupCall
    \/ hook = "setupStart" /\ ret = NoRet /\ StartCall
    \/ PsLabelDone
    \/ PsLegacyDone
    \/ UpdateLabelDone
    \/ InspectDone
    \/ RmDone
    \/ CreateDone
    \/ SetupStartReturned
    \/ SetupWaitDone
    \/ hook = "setupInit" /\ ret = NoRet /\ InitializeCall("setup")
    \/ InitializeSelectDone("setup")
    \/ InitializeConnectDone("setup")
    \/ InitializeSchemaStmt("setup")
    \/ SetupInitializeReturned
    \/ TestsRunning /\ RequestCall
    \/ FetchResponds
    \/ FetchThrows
    \/ RetryDelayDone
    \/ ReadBodyDone
    \/ RequestLogDone
    \/ reqPc = "idle" /\ GlobalTeardownCall
    \/ hook = "teardownClose" /\ ret = NoRet /\ CloseCall
    \/ CloseEndDone
    \/ TeardownCloseReturned
    \/ hook = "teardownStop" /\ ret = NoRet /\ StopCall
    \/ StopDone
    \/ TeardownStopReturned

SpecRunTests == InitRunTests /\ [][NextRunTests]_vars


\* process.env.LOG_API_CALLS is not 'true'.
LoggingDisabled == ~logApiCallsEnabled(env)

\* Nothing of the logging path exists or is under way: no start(), no
\* container handle, no pool built or ended, no row, no operation of the
\* manager or of the container manager in flight; a client call returned
\* without consulting the manager.
LoggingPathUntouched ==
    /\ starts = 0 /\ startPc = "idle" /\ stopPc = "idle"
    /\ container = NoContainer /\ created = {} /\ reused = {}
    /\ pool = NoPool /\ ~isInitialized /\ nextPool = 1 /\ poolEnded = {}
    /\ \A i \in InitCallers : initPc[i] = "idle"
    /\ closePc = "idle" /\ logPc = "idle"
    /\ apiLogs = <<>>
    /\ hook \in {"fresh", "setupSkipped", "teardownSkipped"}
    /\ ret.op = "request" => ret.logOutcome = "disabled"

\* No step touches the environment, the containers of the host, the manager
\* or the log table.
LoggingPathInert == UNCHANGED <<env, docker, dbVars, apiLogs>>

\* C24: when LOG_API_CALLS is not 'true', global setup starts no container,
\* builds no pool and publishes nothing; the client calls insert no row and
\* do not call isReady(), so that no pool is re-created even with
\* DB_INITIALIZED set; global teardown closes no pool and stops no container.
C24_LoggingDisabledIsInert ==
    /\ [](LoggingDisabled => LoggingPathUntouched)
    /\ [][LoggingDisabled => LoggingPathInert]_vars

\* C24's case: with logging disabled and DB_INITIALIZED set, setup returned
\* at once and a client call returned its response, leaving no pool.
C24_Witness ==
    /\ LoggingDisabled
    /\ DbInitializedSignal(env)
    /\ hook = "setupSkipped"
    /\ Len(docker) > 0
    /\ ret.op = "request"
    /\ ret.outcome = "response"
    /\ ret.logOutcome = "disabled"
    /\ pool = NoPool


(***************************************************************************)
(* What global teardown hands to the test runner (SpecRun).                *)
(***************************************************************************)
\* globalTeardown() has returned to the runner without an error.
TeardownReturnedNormally ==
    hook \in {"teardownSkipped", "teardownDone", "teardownFailed"}

\* close() called by the teardown has failed.
TeardownCloseFailed ==
    hook = "teardownClose" /\ ret.op = "close" /\ ret.outcome \notin {"ok", "noop"}

\* stop() called by the teardown has failed.
TeardownStopFailed ==
    hook = "teardownStop" /\ ret.op = "stop" /\ ret.outcome = "error"

\* When close() or stop() has failed, the teardown's next step is its normal
\* return, and nothing else is attempted.
TeardownCatchesFailure ==
    ((TeardownCloseFailed \/ TeardownStopFailed) /\ hook' # hook) =>
        (hook' = "teardownFailed" /\ UNCHANGED <<docker, dbVars, container>>)

\* The teardown is under way, or it has returned normally.
TeardownEndsNormally ==
    hook \in {"teardownClose", "teardownStop"} \/ TeardownReturnedNormally

\* C25: global teardown never passes an error on to the test runner: a
\* failure of close() or of stop() is caught and the teardown returns
\* normally.
C25_TeardownNeverThrows ==
    [][/\ TeardownCatchesFailure
       /\ TeardownEndsNormally => TeardownEndsNormally']_vars

\* C25's case: the teardown returned after stop() had failed, the container
\* still running and still held; the pool was closed before.
C25_Witness ==
    /\ hook = "teardownFailed"
    /\ pool = NoPool
    /\ poolEnded # {}
    /\ container # NoContainer
    /\ created \cap RunningIds(docker) # {}


(***************************************************************************)
(* Rows written by one client call (SpecReq).                              *)
(***************************************************************************)
\* While a client call is being served it has written at most one row, and
\* none while its INSERT is in flight.
AtMostOneRowSoFar ==
    reqPc # "idle" =>
        /\ Len(apiLogs) <= reqRowsBefore + 1
        /\ logPc = "insert" => Len(apiLogs) = reqRowsBefore
        /\ reqPc \in {"fetch", "delay", "readBody"} => Len(apiLogs) = reqRowsBefore

\* C26: one call of the request client inserts at most one api_logs row,
\* whatever the retries and whether it ends with a response or an error: the
\* attempts given up for a retry write none, and the frames of the earlier
\* attempts write none when the last attempt has returned or thrown.
C26_AtMostOneRowPerCall ==
    /\ AtMostOneRowSoFar
    /\ ret.op = "request" =>
          /\ Len(apiLogs) <= ret.rowsBefore + 1
          /\ Len(apiLogs) = ret.rowsBefore + 1 <=>
                 ret.logOutcome = "returned_inserted"

\* C26's case: a call retried twice, answered on its third attempt and
\* logged once.
C26_Witness ==
    /\ ret.op = "request"
    /\ Len(ret.history) = maxRetries + 1
    /\ ret.outcome = "response"
    /\ ret.logOutcome = "returned_inserted"
    /\ Len(apiLogs) = ret.rowsBefore + 1


(***************************************************************************)
(* The flag and the pool handle under overlapping calls (SpecOverlap).     *)
(***************************************************************************)
\* The manager says it is initialized and holds no pool: initialize()
\* returns at its guard, close() finds nothing to close, isReady() is false.
InitializedWithoutPool == isInitialized /\ pool = NoPool

\* C27: in every reachable state of the DatabaseManager, whatever the
\* interleaving of initialize(), isReady() and close() at their suspension
\* points, the initialized flag is set only while a pool handle is present.
C27_FlagOnlyWithPool == ~InitializedWithoutPool


(***************************************************************************)
(* The pools the manager has built (Spec).                                 *)
(***************************************************************************)
\* The pools built so far, by initialize() or by isReady()'s re-creation.
PoolsBuilt == 1..(nextPool - 1)

\* The pools that are neither held by the manager nor ended.
OrphanedPools == {p \in PoolsBuilt : p # pool /\ p \notin poolEnded}

\* C28: no connection pool is orphaned: every pool the manager has built is
\* its current pool or has been ended, also after a failed initialize()
\* followed by another initialize(), and after a final close() no pool it
\* built remains open.
C28_NoPoolOrphaned == OrphanedPools = {}


(***************************************************************************)
(* What a successful initialize() stands for (Spec).                       *)
(***************************************************************************)
\* The initialize() call that returned ran the connectivity check and the
\* whole of createSchemaAndTables() itself.
RanCheckAndSchemaSetup == ret.at = "done"

\* The call before it that completed was an initialize() that succeeded, or
\* a close() that failed and so left the manager as it was.
InitializedBefore == ret.phase \in {"initOk", "closeFailed"}

\* C29: whenever initialize() returns successfully, this manager has run the
\* connectivity check and the schema, table and index setup since its last
\* close(), also when isReady() or logApiCall() re-created the pool before
\* initialize() was called.
C29_InitializeSuccessMeansSchemaSetUp ==
    (ret.op = "initialize" /\ ret.outcome = "ok") =>
        (RanCheckAndSchemaSetup \/ InitializedBefore)


(***************************************************************************)
(* Containers the process did not create (SpecStart).                      *)
(***************************************************************************)
PresentIds(d) == {d[j].id : j \in 1..Len(d)}

\* The containers on the host that this process did not create.
NotCreatedHere == PresentIds(docker) \ created

\* The containers this process did not create that the step takes away.
TakenAway == NotCreatedHere \ PresentIds(docker')

\* start() is removing the container it discovered, after its verification
\* failed.
RemovingAfterFailedVerification(id) ==
    /\ startPc = "rm"
    /\ stopPc = "idle"
    /\ id = existingContainer.containerId
    /\ startLog.cmds[Len(startLog.cmds)].cmd = "inspect"
    /\ startLog.cmds[Len(startLog.cmds)].target = id
    /\ startLog.cmds[Len(startLog.cmds)].result # "true"

\* C30, as stated: neither start() nor stop() stops or removes a container
\* that this process did not create; the containers found by discovery are
\* only inspected, labeled and reused.
C30_OnlyOwnContainersRemoved == [][TakenAway = {}]_vars

\* C30, amended: stop() takes away no container that this process did not
\* create, and start() takes away one only by the forced removal of the
\* container it discovered, when the verification of that container failed
\* (the inspect call failed or did not report it running); every other
\* container it did not create stays.
C30_OnlyFailedVerificationRemoved ==
    [][\A id \in TakenAway : RemovingAfterFailedVerification(id)]_vars

\* C30's case: start() has removed a discovered container that this process
\* did not create and has created its own, next to another container it did
\* not create, which is still there.
C30_Witness ==
    /\ ret.op = "start"
    /\ ret.outcome = "handle"
    /\ \E j \in 1..Len(ret.log.cmds) :
          /\ ret.log.cmds[j].cmd = "rm"
          /\ ret.log.cmds[j].result = "ok"
          /\ ret.log.cmds[j].target \notin created
    /\ created # {}
    /\ NotCreatedHere # {}

============================================================================
